---------------------------- MODULE Spec2Model ----------------------------
(***************************************************************************)
(* Build / flash supervision of the donation-cube setup wizard             *)
(* (src/scripts/setup/builder.py and src/scripts/setup/flasher.py).        *)
(*                                                                         *)
(* A driver launches the PlatformIO child process, a drain thread reads    *)
(* its merged output line by line into the output log and the progress     *)
(* record, the calling thread waits for the child, joins the drain thread  *)
(* and then decides the outcome from the exit code.                        *)
(*                                                                         *)
(* Text.  An output line is a record [text, n]: text is the line, and n is *)
(* the decimal number standing at the letter N of a text that carries one  *)
(* (the esptool write line).  A regular expression is represented by its   *)
(* extension over the line catalogue below: the set of catalogue texts on  *)
(* which Python's re.search succeeds with the flags of the call site       *)
(* (re.IGNORECASE for the build tables and for both error tables, none for *)
(* the flash stage table).                                                 *)
(***************************************************************************)
EXTENDS Integers, Sequences, FiniteSets, TLC

(***************************************************************************)
(* Bounds of the model.                                                    *)
(***************************************************************************)
\* Lines one child process writes before it exits.
MaxLines == 2
\* Build targets requested in one build_project_with_progress call.
MaxTargets == 2
\* Lines the stdout pipe holds before the child blocks in write().
PipeCap == 1
\* Whole time units by which one poll iteration of the device wait may
\* overrun its one-unit sleep (time.sleep sleeps at least the time asked,
\* and the port scan takes time).
MaxSlip == 1

Min(a, b) == IF a < b THEN a ELSE b
Max(a, b) == IF a > b THEN a ELSE b

None == "None"

(***************************************************************************)
(* Line catalogue.                                                         *)
(***************************************************************************)
Line(t) == [text |-> t, n |-> 0]

\* Bytes that do not decode in the locale encoding of the text-mode pipe.
Undecodable == Line("<bytes that are not valid in the locale encoding>")

BuildTexts ==
    { "Resolving esp32c3 dependencies...",
      "Compiling .pio/build/esp32c3/src/main.cpp.o",
      "Linking .pio/build/esp32c3/firmware.elf",
      "Building .pio/build/esp32c3/firmware.bin",
      "Successfully created .pio/build/esp32c3/firmware.bin",
      "========================= [SUCCESS] Took 3.21 seconds =========================",
      "Creating firmware.bin: BUILD SUCCESSFUL",
      "src/main.cpp:3:10: fatal error: foo.h: No such file or directory",
      "src/main.cpp:9:5: error: expected ';' before 'return'",
      "Error: Permission denied: '.pio/build/esp32c3/firmware.elf'",
      "mkdir: cannot create directory '.pio': Permission denied",
      "    3 | #include <foo.h>" }

BuildLines == { Line(t) : t \in BuildTexts }

WriteText == "Writing at 0x00010000... (N %)"
WriteLine(k) == [text |-> WriteText, n |-> k]
\* Values of N on the write lines of the catalogue: (\d+) accepts every
\* non-negative decimal number.
WritePercents == {0, 3, 42, 100, 250}

FlashTexts ==
    { "Auto-detected: /dev/ttyUSB0",
      "Connecting....",
      "Chip is ESP32-C3 (revision 3)",
      "Features: WiFi, BLE",
      "Flash will be erased from 0x00010000 to 0x000f4fff...",
      "Hash of data verified.",
      "Hard resetting via RTS pin...",
      "Connecting.... Hard resetting via RTS pin...",
      "A fatal error occurred: Failed to connect to ESP32-C3: Timed out waiting for packet header",
      "could not open port '/dev/ttyUSB0': [Errno 13] Permission denied: '/dev/ttyUSB0'",
      "/dev/ttyUSB0: Permission denied" }

FlashLines == { Line(t) : t \in FlashTexts } \cup { WriteLine(k) : k \in WritePercents }

\* str.strip(): leading and trailing whitespace removed.
strip(line) ==
    IF line.text = "    3 | #include <foo.h>"
    THEN [line EXCEPT !.text = "3 | #include <foo.h>"]
    ELSE line

\* re.search(pattern, line[, flags]) is not None
re_search(pattern, line) == line.text \in pattern

(***************************************************************************)
(* builder.py: stage table, error table, progress update, classifier.      *)
(***************************************************************************)
BUILD_PATTERNS ==
    [ dependency |-> { "Resolving esp32c3 dependencies..." },
      compiling  |-> { "Compiling .pio/build/esp32c3/src/main.cpp.o",
                       "Building .pio/build/esp32c3/firmware.bin" },
      linking    |-> { "Linking .pio/build/esp32c3/firmware.elf",
                       "Creating firmware.bin: BUILD SUCCESSFUL" },
      generating |-> { "Successfully created .pio/build/esp32c3/firmware.bin",
                       "Building .pio/build/esp32c3/firmware.bin" },
      completed  |-> { "========================= [SUCCESS] Took 3.21 seconds =========================",
                       "Creating firmware.bin: BUILD SUCCESSFUL" } ]

\* [type, pattern, message, solution, group]: group maps a matched text to
\* match.group(1), for the patterns that have a capture group.
ERROR_PATTERNS ==
    << [ type     |-> "missing_library",
         pattern  |-> { "src/main.cpp:3:10: fatal error: foo.h: No such file or directory" },
         message  |-> "Missing library: {}",
         solution |-> "Install required library via PlatformIO",
         group    |-> [ t \in { "src/main.cpp:3:10: fatal error: foo.h: No such file or directory" }
                          |-> "foo.h" ] ],
       [ type     |-> "compilation_error",
         pattern  |-> { "src/main.cpp:3:10: fatal error: foo.h: No such file or directory",
                        "src/main.cpp:9:5: error: expected ';' before 'return'",
                        "Error: Permission denied: '.pio/build/esp32c3/firmware.elf'" },
         message  |-> "Code compilation error: {}",
         solution |-> "Fix code errors and try again",
         group    |-> [ t \in { "src/main.cpp:3:10: fatal error: foo.h: No such file or directory",
                                "src/main.cpp:9:5: error: expected ';' before 'return'",
                                "Error: Permission denied: '.pio/build/esp32c3/firmware.elf'" }
                          |-> CASE t = "src/main.cpp:3:10: fatal error: foo.h: No such file or directory"
                                     -> "foo.h: No such file or directory"
                                [] t = "src/main.cpp:9:5: error: expected ';' before 'return'"
                                     -> "expected ';' before 'return'"
                                [] OTHER -> "Permission denied: '.pio/build/esp32c3/firmware.elf'" ] ],
       [ type     |-> "permission_denied",
         pattern  |-> { "Error: Permission denied: '.pio/build/esp32c3/firmware.elf'",
                        "mkdir: cannot create directory '.pio': Permission denied" },
         message  |-> "Permission denied accessing files",
         solution |-> "Check file permissions or run with appropriate rights",
         group    |-> [ t \in {} |-> "" ] ] >>

\* The record the progress dict is created with.
StartingProgress == [percentage |-> 0, stage |-> "Starting", stage_n |-> 0]

\* A variant of update_build_progress that treats the completed stage like
\* the stages before it: an increment within a band.
update_build_progress_banded(line, progress) ==
    IF re_search(BUILD_PATTERNS.dependency, line)
    THEN [progress EXCEPT !.percentage = Min(15, progress.percentage + 2),
                          !.stage = "Dependencies"]
    ELSE IF re_search(BUILD_PATTERNS.compiling, line)
    THEN [progress EXCEPT !.percentage = Max(15, Min(70, progress.percentage + 3)),
                          !.stage = "Compiling"]
    ELSE IF re_search(BUILD_PATTERNS.linking, line)
    THEN [progress EXCEPT !.percentage = Max(70, Min(85, progress.percentage + 5)),
                          !.stage = "Linking"]
    ELSE IF re_search(BUILD_PATTERNS.generating, line)
    THEN [progress EXCEPT !.percentage = Max(85, Min(95, progress.percentage + 5)),
                          !.stage = "Generating"]
    ELSE IF re_search(BUILD_PATTERNS.completed, line)
    THEN [progress EXCEPT !.percentage = Max(95, Min(100, progress.percentage + 5)),
                          !.stage = "Complete"]
    ELSE progress

\* A variant of update_build_progress that tests the table from its end: of
\* the entries matching the line it applies the last.
update_build_progress_last_match(line, progress) ==
    IF re_search(BUILD_PATTERNS.completed, line)
    THEN [progress EXCEPT !.percentage = 100, !.stage = "Complete"]
    ELSE IF re_search(BUILD_PATTERNS.generating, line)
    THEN [progress EXCEPT !.percentage = Max(85, Min(95, progress.percentage + 5)),
                          !.stage = "Generating"]
    ELSE IF re_search(BUILD_PATTERNS.linking, line)
    THEN [progress EXCEPT !.percentage = Max(70, Min(85, progress.percentage + 5)),
                          !.stage = "Linking"]
    ELSE IF re_search(BUILD_PATTERNS.compiling, line)
    THEN [progress EXCEPT !.percentage = Max(15, Min(70, progress.percentage + 3)),
                          !.stage = "Compiling"]
    ELSE IF re_search(BUILD_PATTERNS.dependency, line)
    THEN [progress EXCEPT !.percentage = Min(15, progress.percentage + 2),
                          !.stage = "Dependencies"]
    ELSE progress

\* The state part of update_build_progress: the progress dict after the call.
update_build_progress(line, progress) ==
    IF re_search(BUILD_PATTERNS.dependency, line)
    THEN [progress EXCEPT !.percentage = Min(15, progress.percentage + 2),
                          !.stage = "Dependencies"]
    ELSE IF re_search(BUILD_PATTERNS.compiling, line)
    THEN [progress EXCEPT !.percentage = Max(15, Min(70, progress.percentage + 3)),
                          !.stage = "Compiling"]
    ELSE IF re_search(BUILD_PATTERNS.linking, line)
    THEN [progress EXCEPT !.percentage = Max(70, Min(85, progress.percentage + 5)),
                          !.stage = "Linking"]
    ELSE IF re_search(BUILD_PATTERNS.generating, line)
    THEN [progress EXCEPT !.percentage = Max(85, Min(95, progress.percentage + 5)),
                          !.stage = "Generating"]
    ELSE IF re_search(BUILD_PATTERNS.completed, line)
    THEN [progress EXCEPT !.percentage = 100, !.stage = "Complete"]
    ELSE progress

\* A progress bar on the terminal: show_progress_bar(label, percentage), the
\* label being the target name with a stage label or a result mark.
Bar(name, stage, stage_n, percentage) ==
    [name |-> name, stage |-> stage, stage_n |-> stage_n, percentage |-> percentage]
NoBar == Bar(None, None, 0, 0)

\* The display part of the progress updates: the bar is redrawn only when
\* the percentage changed.
progress_display(old_bar, name, old_percentage, progress) ==
    IF progress.percentage # old_percentage
    THEN Bar(name, progress.stage, progress.stage_n, progress.percentage)
    ELSE old_bar

\* error_config['message'].format(match.group(1) if match.groups() else '')
Format(sig, line) ==
    [ template |-> sig.message,
      arg |-> IF line.text \in DOMAIN sig.group THEN sig.group[line.text] ELSE "" ]

NoError == [type |-> None, message |-> [template |-> None, arg |-> ""],
            solution |-> None, line |-> Line(None)]

\* A variant of the inner loop that takes the table from its end: the last
\* entry, from position k on, that matches the line.
last_build_signature(line, k) ==
    LET matching == { s \in k .. Len(ERROR_PATTERNS) :
                        re_search(ERROR_PATTERNS[s].pattern, line) }
    IN  IF matching = {} THEN 0
        ELSE CHOOSE s \in matching : \A t \in matching : t <= s

\* The inner loop of detect_build_errors: the first entry of ERROR_PATTERNS,
\* in table order from position k on, that matches the line; 0 when none does.
RECURSIVE first_build_signature(_, _)
first_build_signature(line, k) ==
    IF k > Len(ERROR_PATTERNS) THEN 0
    ELSE IF re_search(ERROR_PATTERNS[k].pattern, line) THEN k
    ELSE first_build_signature(line, k + 1)

\* The outer loop of detect_build_errors, from line k on.
RECURSIVE scan_build_lines(_, _)
scan_build_lines(output_lines, k) ==
    IF k > Len(output_lines) THEN NoError
    ELSE LET s == first_build_signature(output_lines[k], 1)
         IN  IF s # 0
             THEN [ type     |-> ERROR_PATTERNS[s].type,
                    message  |-> Format(ERROR_PATTERNS[s], output_lines[k]),
                    solution |-> ERROR_PATTERNS[s].solution,
                    line     |-> output_lines[k] ]
             ELSE scan_build_lines(output_lines, k + 1)

\* A variant of the scan with the loops exchanged (signature-major): the
\* outer loop over ERROR_PATTERNS from entry s, the inner over the lines
\* from line k.
RECURSIVE scan_build_signatures(_, _, _)
scan_build_signatures(output_lines, s, k) ==
    IF s > Len(ERROR_PATTERNS) THEN NoError
    ELSE IF k > Len(output_lines) THEN scan_build_signatures(output_lines, s + 1, 1)
    ELSE IF re_search(ERROR_PATTERNS[s].pattern, output_lines[k])
    THEN [ type     |-> ERROR_PATTERNS[s].type,
           message  |-> Format(ERROR_PATTERNS[s], output_lines[k]),
           solution |-> ERROR_PATTERNS[s].solution,
           line     |-> output_lines[k] ]
    ELSE scan_build_signatures(output_lines, s, k + 1)

detect_build_errors_signature_major(output_lines) ==
    scan_build_signatures(output_lines, 1, 1)

detect_build_errors(output_lines) == scan_build_lines(output_lines, 1)

\* show_progress_bar(label, percentage) is called: the percentage joins
\* those drawn for the operation.
show_progress_bar(drawn, percentage) == Append(drawn, percentage)

\* The percentages drawn after a progress update: one more when the
\* percentage changed.
progress_drawn(drawn, old_percentage, progress) ==
    IF progress.percentage # old_percentage
    THEN show_progress_bar(drawn, progress.percentage)
    ELSE drawn

(***************************************************************************)
(* flasher.py: stage table, error table, progress update, classifier.      *)
(***************************************************************************)
FLASH_PATTERNS ==
    [ detecting    |-> { "Auto-detected: /dev/ttyUSB0" },
      connecting   |-> { "Connecting....",
                         "Connecting.... Hard resetting via RTS pin..." },
      chip_info    |-> { "Chip is ESP32-C3 (revision 3)" },
      features     |-> { "Features: WiFi, BLE" },
      erasing      |-> { "Flash will be erased from 0x00010000 to 0x000f4fff..." },
      writing      |-> { WriteText },
      verification |-> { "Hash of data verified." },
      reset        |-> { "Hard resetting via RTS pin...",
                         "Connecting.... Hard resetting via RTS pin..." } ]

FLASH_ERROR_PATTERNS ==
    << [ type     |-> "device_not_found",
         pattern  |-> { "could not open port '/dev/ttyUSB0': [Errno 13] Permission denied: '/dev/ttyUSB0'" },
         message  |-> "Device connection failed",
         solution |-> "Check USB connection and device permissions" ],
       [ type     |-> "connection_timeout",
         pattern  |-> { "A fatal error occurred: Failed to connect to ESP32-C3: Timed out waiting for packet header" },
         message  |-> "Device connection timeout",
         solution |-> "Hold BOOT button and try again" ],
       [ type     |-> "permission_denied",
         pattern  |-> { "could not open port '/dev/ttyUSB0': [Errno 13] Permission denied: '/dev/ttyUSB0'",
                        "/dev/ttyUSB0: Permission denied" },
         message  |-> "Permission denied accessing device",
         solution |-> "Add user to dialout group: sudo usermod -a -G dialout $USER" ] >>

\* round(n * 0.5) as Python rounds a float: to the nearest integer, a half
\* to the even neighbour.
round_half(n) ==
    IF n % 2 = 0 THEN n \div 2
    ELSE IF ((n - 1) \div 2) % 2 = 0 THEN (n - 1) \div 2 ELSE (n + 1) \div 2

\* A variant of update_flash_progress that rounds the rescaled write
\* percentage instead of truncating it.
update_flash_progress_rounded(line, progress) ==
    IF re_search(FLASH_PATTERNS.detecting, line)
    THEN [progress EXCEPT !.percentage = 10, !.stage = "Device detected", !.stage_n = 0]
    ELSE IF re_search(FLASH_PATTERNS.connecting, line)
    THEN [progress EXCEPT !.percentage = 20, !.stage = "Connecting", !.stage_n = 0]
    ELSE IF re_search(FLASH_PATTERNS.chip_info, line)
    THEN [progress EXCEPT !.percentage = 30, !.stage = "Chip identified", !.stage_n = 0]
    ELSE IF re_search(FLASH_PATTERNS.erasing, line)
    THEN [progress EXCEPT !.percentage = 40, !.stage = "Erasing flash", !.stage_n = 0]
    ELSE IF re_search(FLASH_PATTERNS.writing, line)
    THEN [progress EXCEPT !.percentage = 40 + round_half(line.n),
                          !.stage = "Writing (N%)", !.stage_n = line.n]
    ELSE IF re_search(FLASH_PATTERNS.verification, line)
    THEN [progress EXCEPT !.percentage = 95, !.stage = "Verifying", !.stage_n = 0]
    ELSE IF re_search(FLASH_PATTERNS.reset, line)
    THEN [progress EXCEPT !.percentage = 100, !.stage = "Complete", !.stage_n = 0]
    ELSE progress

\* A variant of update_flash_progress that has a branch for the 'features'
\* entry of the table, between chip_info and erasing.
update_flash_progress_features(line, progress) ==
    IF re_search(FLASH_PATTERNS.detecting, line)
    THEN [progress EXCEPT !.percentage = 10, !.stage = "Device detected", !.stage_n = 0]
    ELSE IF re_search(FLASH_PATTERNS.connecting, line)
    THEN [progress EXCEPT !.percentage = 20, !.stage = "Connecting", !.stage_n = 0]
    ELSE IF re_search(FLASH_PATTERNS.chip_info, line)
    THEN [progress EXCEPT !.percentage = 30, !.stage = "Chip identified", !.stage_n = 0]
    ELSE IF re_search(FLASH_PATTERNS.features, line)
    THEN [progress EXCEPT !.percentage = 35, !.stage = "Features", !.stage_n = 0]
    ELSE IF re_search(FLASH_PATTERNS.erasing, line)
    THEN [progress EXCEPT !.percentage = 40, !.stage = "Erasing flash", !.stage_n = 0]
    ELSE IF re_search(FLASH_PATTERNS.writing, line)
    THEN [progress EXCEPT !.percentage = 40 + (line.n \div 2),
                          !.stage = "Writing (N%)", !.stage_n = line.n]
    ELSE IF re_search(FLASH_PATTERNS.verification, line)
    THEN [progress EXCEPT !.percentage = 95, !.stage = "Verifying", !.stage_n = 0]
    ELSE IF re_search(FLASH_PATTERNS.reset, line)
    THEN [progress EXCEPT !.percentage = 100, !.stage = "Complete", !.stage_n = 0]
    ELSE progress

\* The state part of update_flash_progress.  re.search(r'\((\d+) %\)', line)
\* finds the number of the write line; int(write_percentage * 0.5) is the
\* float product truncated, n \div 2 for n >= 0.
update_flash_progress(line, progress) ==
    IF re_search(FLASH_PATTERNS.detecting, line)
    THEN [progress EXCEPT !.percentage = 10, !.stage = "Device detected", !.stage_n = 0]
    ELSE IF re_search(FLASH_PATTERNS.connecting, line)
    THEN [progress EXCEPT !.percentage = 20, !.stage = "Connecting", !.stage_n = 0]
    ELSE IF re_search(FLASH_PATTERNS.chip_info, line)
    THEN [progress EXCEPT !.percentage = 30, !.stage = "Chip identified", !.stage_n = 0]
    ELSE IF re_search(FLASH_PATTERNS.erasing, line)
    THEN [progress EXCEPT !.percentage = 40, !.stage = "Erasing flash", !.stage_n = 0]
    ELSE IF re_search(FLASH_PATTERNS.writing, line)
    THEN [progress EXCEPT !.percentage = 40 + (line.n \div 2),
                          !.stage = "Writing (N%)", !.stage_n = line.n]
    ELSE IF re_search(FLASH_PATTERNS.verification, line)
    THEN [progress EXCEPT !.percentage = 95, !.stage = "Verifying", !.stage_n = 0]
    ELSE IF re_search(FLASH_PATTERNS.reset, line)
    THEN [progress EXCEPT !.percentage = 100, !.stage = "Complete", !.stage_n = 0]
    ELSE progress

\* The inner loop of detect_flash_errors.
RECURSIVE first_flash_signature(_, _)
first_flash_signature(line, k) ==
    IF k > Len(FLASH_ERROR_PATTERNS) THEN 0
    ELSE IF re_search(FLASH_ERROR_PATTERNS[k].pattern, line) THEN k
    ELSE first_flash_signature(line, k + 1)

\* The outer loop of detect_flash_errors, from line k on; the message is the
\* table's text, nothing is substituted into it.
RECURSIVE scan_flash_lines(_, _)
scan_flash_lines(output_lines, k) ==
    IF k > Len(output_lines) THEN NoError
    ELSE LET s == first_flash_signature(output_lines[k], 1)
         IN  IF s # 0
             THEN [ type     |-> FLASH_ERROR_PATTERNS[s].type,
                    message  |-> [template |-> FLASH_ERROR_PATTERNS[s].message, arg |-> ""],
                    solution |-> FLASH_ERROR_PATTERNS[s].solution,
                    line     |-> output_lines[k] ]
             ELSE scan_flash_lines(output_lines, k + 1)

detect_flash_errors(output_lines) == scan_flash_lines(output_lines, 1)

(***************************************************************************)
(* flasher.py: the device classifier.                                      *)
(*                                                                         *)
(* A port is [device, description, hwid, vid]; an absent description or    *)
(* hardware id is "" (None and '' are both falsy) and vid is {} for None   *)
(* or {v}.  The substring and prefix tests on the lower-cased strings are  *)
(* represented by the catalogue strings they hold for.                     *)
(***************************************************************************)
Port(device, description, hwid, vid) ==
    [device |-> device, description |-> description, hwid |-> hwid, vid |-> vid]

DevicePorts ==
    { Port("/dev/ttyUSB0", "CP2102 USB to UART Bridge Controller",
           "USB VID:PID=10C4:EA60 SER=0001 LOCATION=1-1", {4292}),
      Port("/dev/ttyUSB1", "n/a", "n/a", {}),
      Port("/dev/ttyACM1", "", "", {}),
      Port("COM3", "Standard Serial over Bluetooth link (COM3)", "BTHENUM", {}),
      Port("/dev/ttyAMA0", "ttyAMA0", "fe201000.serial", {}),
      Port("/dev/ttyS4", "n/a", "n/a", {1027}),
      Port("COM4", "", "", {6790}),
      Port("/dev/ttyS1", "", "", {}),
      Port("/dev/ttyS5", "n/a", "n/a", {1155}),
      Port("/dev/ttyS2", "n/a", "fe201000.serial", {}),
      Port("/dev/ttyS3", "ttyAMA0", "", {}),
      Port("/dev/cu.usbserial-1410", "USB2.0-Serial",
           "USB VID:PID=1A86:7523 LOCATION=20-1", {}) }

\* 0x303A, 0x10C4, 0x1A86, 0x0403, 0x067B
esp_vendor_ids == {12346, 4292, 6790, 1027, 1659}

\* any(pattern in s.lower() for pattern in esp_patterns)
ContainsEspPattern ==
    { "CP2102 USB to UART Bridge Controller",
      "USB VID:PID=10C4:EA60 SER=0001 LOCATION=1-1",
      "USB2.0-Serial" }

\* 'usb' in s.lower() or 'serial' in s.lower()
ContainsUsbOrSerial ==
    { "CP2102 USB to UART Bridge Controller",
      "Standard Serial over Bluetooth link (COM3)",
      "USB2.0-Serial" }

\* device.startswith('/dev/ttyUSB') or .startswith('/dev/ttyACM') or .startswith('COM')
SerialDevicePaths == { "/dev/ttyUSB0", "/dev/ttyUSB1", "/dev/ttyACM1", "COM3", "COM4" }

port_info(port) ==
    [ port        |-> port.device,
      description |-> IF port.description = "" THEN "Unknown" ELSE port.description,
      hwid        |-> port.hwid,
      vid         |-> port.vid ]

\* A variant in which the vendor ID counts only for a port that has a
\* description of its own.
is_esp_device_described(port) ==
    LET info == port_info(port)
    IN  IF info.vid # {} /\ info.vid # {0} /\ info.vid \subseteq esp_vendor_ids
           /\ info.description \notin {"n/a", "Unknown"}
        THEN TRUE
        ELSE IF info.description \in ContainsEspPattern \/ info.hwid \in ContainsEspPattern
        THEN TRUE
        ELSE IF port.device \in SerialDevicePaths
        THEN \/ info.description \in ContainsUsbOrSerial
             \/ info.description # "n/a"
        ELSE FALSE

is_esp_device(port) ==
    LET info == port_info(port)
    IN  IF info.vid # {} /\ info.vid # {0} /\ info.vid \subseteq esp_vendor_ids
        THEN TRUE
        ELSE IF info.description \in ContainsEspPattern \/ info.hwid \in ContainsEspPattern
        THEN TRUE
        ELSE IF port.device \in SerialDevicePaths
        THEN \/ info.description \in ContainsUsbOrSerial
             \/ info.description # "n/a"
        ELSE FALSE

\* The ports that appear in the enumerations of two ports: an accepted and
\* a rejected port on a USB serial path, the port without description, and a
\* legacy port.
PairedPorts ==
    { p \in DevicePorts :
        p.device \in {"/dev/ttyUSB0", "/dev/ttyUSB1", "/dev/ttyACM1", "/dev/ttyS5"} }

\* One enumeration of the host's ports: the ports comports() yields, and
\* whether the enumeration then fails with a driver / OS error.
HostScans ==
    { [ports |-> ps, error |-> e] :
        ps \in {<<>>} \cup { <<p>> : p \in DevicePorts }
                      \cup { pq \in PairedPorts \X PairedPorts : pq[1] # pq[2] },
        e \in BOOLEAN }

RECURSIVE esp_devices(_)
esp_devices(ports) ==
    IF ports = <<>> THEN <<>>
    ELSE (IF is_esp_device(Head(ports)) THEN <<port_info(Head(ports))>> ELSE <<>>)
         \o esp_devices(Tail(ports))

\* A variant that prints the debug listing whenever no candidate was found.
detect_serial_devices_listing(scan) ==
    LET devices == esp_devices(scan.ports)
    IN  [ devices |-> devices,
          listing |-> ~scan.error /\ devices = <<>>,
          warning |-> scan.error ]

\* A variant that prints the listing in the except clause as well.
detect_serial_devices_listing_after_error(scan) ==
    LET devices == esp_devices(scan.ports)
    IN  [ devices |-> devices,
          listing |-> devices = <<>> /\ scan.ports # <<>>,
          warning |-> scan.error ]

\* detect_serial_devices(): the candidate list returned, whether the debug
\* listing of all ports was printed, and whether the warning was.
detect_serial_devices(scan) ==
    LET devices == esp_devices(scan.ports)
    IN  [ devices |-> devices,
          listing |-> ~scan.error /\ devices = <<>> /\ scan.ports # <<>>,
          warning |-> scan.error ]

(***************************************************************************)
(* flasher.py: list_all_serial_devices, the view of the real devices.      *)
(***************************************************************************)
\* device.startswith('/dev/ttyS')
VirtualSerialPaths ==
    { "/dev/ttyS1", "/dev/ttyS2", "/dev/ttyS3", "/dev/ttyS4", "/dev/ttyS5" }

\* str.lower() of a description or hardware ID, as far as the comparisons
\* with 'n/a', 'unknown' and '' go: of the catalogue's strings only the
\* default 'Unknown' becomes one of them by lowering.
lower(s) == IF s = "Unknown" THEN "unknown" ELSE s

\* The loop body's two 'continue' tests, negated: the port is kept.
is_real_device(port) ==
    LET description == IF port.description = "" THEN "Unknown" ELSE port.description
        hwid == port.hwid
    IN  /\ ~( /\ lower(description) \in {"n/a", "unknown"}
              /\ lower(hwid) \in {"n/a", "", "unknown"} )
        /\ ~( /\ port.device \in VirtualSerialPaths
              /\ lower(description) = "n/a"
              /\ hwid = "" )

\* A variant that lists every port of the enumeration.
list_all_serial_devices_unfiltered(scan) ==
    IF scan.error
    THEN [all_ports |-> <<>>, real_devices |-> <<>>, error |-> TRUE]
    ELSE [all_ports |-> scan.ports, real_devices |-> scan.ports, error |-> FALSE]

\* list_all_serial_devices(): what list(comports()) returned and the ports
\* printed; when the enumeration raises, only the error is printed.
list_all_serial_devices(scan) ==
    IF scan.error
    THEN [all_ports |-> <<>>, real_devices |-> <<>>, error |-> TRUE]
    ELSE [all_ports |-> scan.ports,
          real_devices |-> SelectSeq(scan.ports, is_real_device),
          error |-> FALSE]

(***************************************************************************)
(* State.                                                                  *)
(***************************************************************************)
VARIABLES
    mode,              \* which driver is called: "build" or "flash"
    environments,      \* build_project_with_progress: the requested targets
    target_env,        \* flash_target_with_progress: the target, or None
    pc,                \* position of the calling thread
    i,                 \* the build loop's index into environments
    process,           \* per operation: the Popen object, [state, returncode]
    parse_thread,      \* per operation: the drain thread
    pipe,              \* lines written by the child and not yet read
    emitted,           \* history: all the child has written
    progress,          \* the progress dict of the operation
    output_lines,      \* the output log of the operation
    successful_builds, \* the list build_project_with_progress returns
    flash_result,      \* what flash_target_with_progress returned
    bar,               \* the last progress bar drawn for the operation
    rendered,          \* history: the percentages of the bars drawn for it
    console,           \* the last message printed
    elapsed,           \* time.time() - start_time, in whole time units
    last_device_count, \* wait_for_device_connection's local
    polls,             \* history: scans made by the running device wait
    found,             \* history: some scan of this call returned a candidate
    popen_calls,       \* history: the targets Popen was called for, in order
    last_scan,         \* history: what comports() gave the last device scan
    detected,          \* what the last call of detect_serial_devices returned
    wizard,            \* the caller: how it was started, where it is, and
                       \* (history) whether an interrupt was raised
    serial_view        \* what the last call of list_all_serial_devices got
                       \* from comports() and what it listed

vars == << mode, environments, target_env, pc, i, process, parse_thread, pipe,
           emitted, progress, output_lines, successful_builds, flash_result,
           bar, rendered, console, elapsed, last_device_count, polls, found,
           popen_calls, last_scan, detected, wizard, serial_view >>

\* wait_for_device_connection(timeout=30)
timeout == 30

\* The caller of a driver: "call" is a plain call of the driver function,
\* "menu" the interactive wizard (python setup.py, choices 1 and 2), "full"
\* python setup.py --full, "flash" python setup.py --flash TARGET.  It is
\* inside the driver ("in_step") until the driver returns or is left by an
\* exception.
Caller(entry) == [entry |-> entry, at |-> "in_step", interrupted |-> FALSE]

\* Before the first scan of a device wait, and after the wait returned True.
NoScan == [ports |-> <<>>, error |-> FALSE]
NoDevices == [devices |-> <<>>, listing |-> FALSE, warning |-> FALSE]
NoView == [all_ports |-> <<>>, real_devices |-> <<>>, error |-> FALSE]

AllEnvironments == << "esp32c3", "wemos_d1_mini", "esp32dev", "esp8266" >>
Requested(n) == SubSeq(AllEnvironments, 1, n)

\* Exit codes of the child: 0, and a failure.
ExitCodes == {0, 1}

Operations == 1 .. MaxTargets
NoProcess == [state |-> "none", returncode |-> -1]

Console(kind, error, code) == [kind |-> kind, error |-> error, code |-> code]
Say(kind) == Console(kind, NoError, -1)

\* A variant of the failure branch that prints the exit code next to the
\* diagnosis.
build_failure_with_exit_code(error_info, returncode) ==
    IF error_info # NoError
    THEN Console("build_error", error_info, returncode)
    ELSE Console("build_failed_with_exit_code", NoError, returncode)

\* The failure branch of the build driver: show_build_error(error_info) when
\* the classifier returned a diagnosis, otherwise "Build failed with exit
\* code {returncode}".
build_failure(error_info, returncode) ==
    IF error_info # NoError
    THEN Console("build_error", error_info, -1)
    ELSE Console("build_failed_with_exit_code", NoError, returncode)

\* The failure branch of the flash driver: show_flash_error(error_info), or
\* "Flashing failed with exit code {returncode}".
flash_failure(error_info, returncode) ==
    IF error_info # NoError
    THEN Console("flash_error", error_info, -1)
    ELSE Console("flashing_failed_with_exit_code", NoError, returncode)

\* The state when a driver is entered by one of the callers.
InitWith(entries) ==
    /\ mode \in {"build", "flash"}
    /\ environments \in IF mode = "build"
                        THEN { Requested(n) : n \in 0 .. MaxTargets }
                        ELSE { <<>> }
    /\ target_env \in IF mode = "flash" THEN { None, AllEnvironments[1] } ELSE { None }
    /\ pc = IF mode = "build" THEN "build_entry" ELSE "flash_entry"
    /\ i = 0
    /\ process = [k \in Operations |-> NoProcess]
    /\ parse_thread = [k \in Operations |-> "none"]
    /\ pipe = <<>>
    /\ emitted = <<>>
    /\ progress = StartingProgress
    /\ output_lines = <<>>
    /\ successful_builds = <<>>
    /\ flash_result = None
    /\ bar = NoBar
    /\ rendered = <<>>
    /\ console = Say("banner")
    /\ elapsed = 0
    /\ last_device_count = -1
    /\ polls = 0
    /\ found = FALSE
    /\ popen_calls = <<>>
    /\ last_scan = NoScan
    /\ detected = NoDevices
    /\ wizard \in { Caller(entry) : entry \in entries }
    /\ serial_view = NoView

Init == InitWith({"call"})

(***************************************************************************)
(* The child process (pio run ...) and its stdout pipe.                    *)
(***************************************************************************)
ChildLines == (IF mode = "build" THEN BuildLines ELSE FlashLines) \cup {Undecodable}

\* The child writes one line; write() blocks while the pipe is full.
ChildWrite(k) ==
    /\ process[k].state = "running"
    /\ Len(emitted) < MaxLines
    /\ Len(pipe) < PipeCap
    /\ \E line \in ChildLines :
         /\ pipe' = Append(pipe, line)
         /\ emitted' = Append(emitted, line)
    /\ UNCHANGED << mode, environments, target_env, pc, i, process, parse_thread,
                    progress, output_lines, successful_builds, flash_result, bar, rendered,
                    console, elapsed, last_device_count, polls, found, popen_calls, last_scan, detected, wizard, serial_view >>

\* The child exits: its end of the pipe is closed, what it wrote stays readable.
ChildExit(k) ==
    /\ process[k].state = "running"
    /\ \E code \in ExitCodes :
         process' = [process EXCEPT ![k] = [state |-> "exited", returncode |-> code]]
    /\ UNCHANGED << mode, environments, target_env, pc, i, parse_thread, pipe, emitted,
                    progress, output_lines, successful_builds, flash_result, bar, rendered,
                    console, elapsed, last_device_count, polls, found, popen_calls, last_scan, detected, wizard, serial_view >>

(***************************************************************************)
(* builder.py: the drain thread, parse_build_output_realtime.              *)
(***************************************************************************)
\* One turn of the loop: readline() returned a line, which is stripped,
\* logged and passed to update_build_progress.
ParseBuildLine(k) ==
    /\ mode = "build"
    /\ parse_thread[k] = "alive"
    /\ pipe # <<>>
    /\ Head(pipe) # Undecodable
    /\ LET line == strip(Head(pipe))
           new  == update_build_progress(line, progress)
       IN  /\ output_lines' = Append(output_lines, line)
           /\ progress' = new
           /\ bar' = progress_display(bar, environments[k], progress.percentage, new)
           /\ rendered' = progress_drawn(rendered, progress.percentage, new)
    /\ pipe' = Tail(pipe)
    /\ UNCHANGED << mode, environments, target_env, pc, i, process, parse_thread, emitted,
                    successful_builds, flash_result, console, elapsed,
                    last_device_count, polls, found, popen_calls, last_scan, detected, wizard, serial_view >>

\* readline() on the text-mode pipe (universal_newlines=True) raises
\* UnicodeDecodeError; nothing in the thread catches it, the thread ends.
ParseBuildDecodeError(k) ==
    /\ mode = "build"
    /\ parse_thread[k] = "alive"
    /\ pipe # <<>>
    /\ Head(pipe) = Undecodable
    /\ pipe' = Tail(pipe)
    /\ parse_thread' = [parse_thread EXCEPT ![k] = "crashed"]
    /\ UNCHANGED << mode, environments, target_env, pc, i, process, emitted, progress,
                    output_lines, successful_builds, flash_result, bar, rendered, console,
                    elapsed, last_device_count, polls, found, popen_calls, last_scan, detected, wizard, serial_view >>

\* readline() returned '': the pipe is empty and its write end is closed.
ParseBuildEOF(k) ==
    /\ mode = "build"
    /\ parse_thread[k] = "alive"
    /\ pipe = <<>>
    /\ process[k].state = "exited"
    /\ parse_thread' = [parse_thread EXCEPT ![k] = "finished"]
    /\ UNCHANGED << mode, environments, target_env, pc, i, process, pipe, emitted,
                    progress, output_lines, successful_builds, flash_result, bar, rendered,
                    console, elapsed, last_device_count, polls, found, popen_calls, last_scan, detected, wizard, serial_view >>

(***************************************************************************)
(* builder.py: build_project_with_progress, the calling thread.            *)
(***************************************************************************)
\* process.wait() has returned.
wait_returned(k) == process[k].state = "exited"

\* A variant without the join: the calling thread goes on at once.
join_not_awaited(k) == TRUE

\* parse_thread.join() has returned: the thread has ended, either way.
join_returned(k) == parse_thread[k] \in {"finished", "crashed"}

\* A variant with the test inverted: if process.returncode
returncode_truthy(k) == process[k].returncode # 0

\* if process.returncode == 0
returncode_ok(k) == process[k].returncode = 0

\* A variant of the loop that leaves it when a child exited with a code
\* other than 0.
BreakAtFailedTarget ==
    IF process[i].state = "exited" /\ process[i].returncode # 0
    THEN i' = i /\ pc' = "build_summary"
    ELSE IF i < Len(environments)
    THEN i' = i + 1 /\ pc' = "build_popen"
    ELSE i' = i /\ pc' = "build_summary"

\* A variant of the loop that launches a target again when its child exited
\* with a code other than 0.
RetryFailedTarget ==
    IF process[i].state = "exited" /\ process[i].returncode # 0
    THEN i' = i /\ pc' = "build_popen"
    ELSE IF i < Len(environments)
    THEN i' = i + 1 /\ pc' = "build_popen"
    ELSE i' = i /\ pc' = "build_summary"

\* The end of one turn of the for loop.
NextTarget ==
    IF i < Len(environments)
    THEN i' = i + 1 /\ pc' = "build_popen"
    ELSE i' = i /\ pc' = "build_summary"

BuildEntry ==
    /\ pc = "build_entry"
    /\ IF environments = <<>>
       THEN /\ console' = Say("no_environments_selected")
            /\ pc' = "done"
            /\ i' = i
       ELSE /\ console' = Say("building_targets")
            /\ pc' = "build_popen"
            /\ i' = 1
    /\ UNCHANGED << mode, environments, target_env, process, parse_thread, pipe, emitted,
                    progress, output_lines, successful_builds, flash_result, bar, rendered,
                    elapsed, last_device_count, polls, found, popen_calls, last_scan, detected, wizard, serial_view >>

\* A variant in which the progress dict and the log are created once, before
\* the loop over the targets, and shared by the operations.
BuildPopenSharedState ==
    /\ pc = "build_popen"
    /\ popen_calls' = Append(popen_calls, environments[i])
    /\ process' = [process EXCEPT ![i] = [state |-> "running", returncode |-> -1]]
    /\ pipe' = <<>>
    /\ emitted' = <<>>
    /\ progress' = IF i = 1 THEN StartingProgress ELSE progress
    /\ output_lines' = IF i = 1 THEN <<>> ELSE output_lines
    /\ parse_thread' = [parse_thread EXCEPT ![i] = "alive"]
    /\ bar' = NoBar
    /\ rendered' = <<>>
    /\ console' = Say("building_target")
    /\ pc' = "build_wait"
    /\ UNCHANGED << mode, environments, target_env, i, successful_builds, flash_result,
                    elapsed, last_device_count, polls, found, last_scan, detected, wizard, serial_view >>

\* Popen succeeds; the progress dict and the log are created, the drain
\* thread is started.
BuildPopen ==
    /\ pc = "build_popen"
    /\ popen_calls' = Append(popen_calls, environments[i])
    /\ process' = [process EXCEPT ![i] = [state |-> "running", returncode |-> -1]]
    /\ pipe' = <<>>
    /\ emitted' = <<>>
    /\ progress' = StartingProgress
    /\ output_lines' = <<>>
    /\ parse_thread' = [parse_thread EXCEPT ![i] = "alive"]
    /\ bar' = NoBar
    /\ rendered' = <<>>
    /\ console' = Say("building_target")
    /\ pc' = "build_wait"
    /\ UNCHANGED << mode, environments, target_env, i, successful_builds, flash_result,
                    elapsed, last_device_count, polls, found, last_scan, detected, wizard, serial_view >>

\* A variant in which a command that cannot be started shows as a child that
\* exited with code 127, as under a shell.
BuildSpawnFailureAsExit ==
    /\ pc = "build_popen"
    /\ popen_calls' = Append(popen_calls, environments[i])
    /\ process' = [process EXCEPT ![i] = [state |-> "spawn_failed", returncode |-> 127]]
    /\ parse_thread' = [parse_thread EXCEPT ![i] = "finished"]
    /\ pipe' = <<>>
    /\ emitted' = <<>>
    /\ output_lines' = <<>>
    /\ progress' = StartingProgress
    /\ rendered' = <<>>
    /\ pc' = "build_check"
    /\ UNCHANGED << mode, environments, target_env, i, successful_builds, flash_result,
                    bar, console, elapsed, last_device_count, polls, found, last_scan, detected, wizard, serial_view >>

\* Popen raises (the executable is missing or may not be run): the except
\* clause reports it and the loop goes on.
BuildSpawnFailure ==
    /\ pc = "build_popen"
    /\ popen_calls' = Append(popen_calls, environments[i])
    /\ process' = [process EXCEPT ![i] = [state |-> "spawn_failed", returncode |-> -1]]
    /\ console' = Say("error_building")
    /\ NextTarget
    /\ UNCHANGED << mode, environments, target_env, parse_thread, pipe, emitted, progress,
                    output_lines, successful_builds, flash_result, bar, rendered, elapsed,
                    last_device_count, polls, found, last_scan, detected, wizard, serial_view >>

BuildWait ==
    /\ pc = "build_wait"
    /\ wait_returned(i)
    /\ pc' = "build_join"
    /\ UNCHANGED << mode, environments, target_env, i, process, parse_thread, pipe,
                    emitted, progress, output_lines, successful_builds, flash_result,
                    bar, rendered, console, elapsed, last_device_count, polls, found, popen_calls, last_scan, detected, wizard, serial_view >>

BuildJoin ==
    /\ pc = "build_join"
    /\ join_returned(i)
    /\ pc' = "build_check"
    /\ UNCHANGED << mode, environments, target_env, i, process, parse_thread, pipe,
                    emitted, progress,
                    output_lines, successful_builds, flash_result, bar, rendered, console,
                    elapsed, last_device_count, polls, found, popen_calls, last_scan, detected, wizard, serial_view >>

\* "Check result": the exit code decides.
BuildCheck ==
    /\ pc = "build_check"
    /\ IF returncode_ok(i)
       THEN /\ bar' = Bar(environments[i], "success", 0, 100)
            /\ rendered' = show_progress_bar(rendered, 100)
            /\ console' = Say("build_successful")
            /\ successful_builds' = Append(successful_builds, environments[i])
       ELSE /\ bar' = Bar(environments[i], "failure", 0, progress.percentage)
            /\ rendered' = show_progress_bar(rendered, progress.percentage)
            /\ console' = build_failure(detect_build_errors(output_lines),
                                        process[i].returncode)
            /\ successful_builds' = successful_builds
    /\ NextTarget
    /\ UNCHANGED << mode, environments, target_env, process, parse_thread, pipe, emitted,
                    progress, output_lines, flash_result, elapsed, last_device_count,
                    polls, found, popen_calls, last_scan, detected, wizard, serial_view >>

\* The summary, and the return of successful_builds.
BuildSummary ==
    /\ pc = "build_summary"
    /\ console' = IF successful_builds # <<>>
                  THEN Say("successfully_built") ELSE Say("no_builds_successful")
    /\ pc' = "done"
    /\ UNCHANGED << mode, environments, target_env, i, process, parse_thread, pipe,
                    emitted, progress, output_lines, successful_builds, flash_result,
                    bar, rendered, elapsed, last_device_count, polls, found, popen_calls, last_scan, detected, wizard, serial_view >>

(***************************************************************************)
(* flasher.py: the drain thread, parse_flash_output_realtime.              *)
(***************************************************************************)
ParseFlashLine(k) ==
    /\ mode = "flash"
    /\ parse_thread[k] = "alive"
    /\ pipe # <<>>
    /\ Head(pipe) # Undecodable
    /\ LET line == strip(Head(pipe))
           new  == update_flash_progress(line, progress)
       IN  /\ output_lines' = Append(output_lines, line)
           /\ progress' = new
           /\ bar' = progress_display(bar, target_env, progress.percentage, new)
           /\ rendered' = progress_drawn(rendered, progress.percentage, new)
    /\ pipe' = Tail(pipe)
    /\ UNCHANGED << mode, environments, target_env, pc, i, process, parse_thread, emitted,
                    successful_builds, flash_result, console, elapsed,
                    last_device_count, polls, found, popen_calls, last_scan, detected, wizard, serial_view >>

ParseFlashDecodeError(k) ==
    /\ mode = "flash"
    /\ parse_thread[k] = "alive"
    /\ pipe # <<>>
    /\ Head(pipe) = Undecodable
    /\ pipe' = Tail(pipe)
    /\ parse_thread' = [parse_thread EXCEPT ![k] = "crashed"]
    /\ UNCHANGED << mode, environments, target_env, pc, i, process, emitted, progress,
                    output_lines, successful_builds, flash_result, bar, rendered, console,
                    elapsed, last_device_count, polls, found, popen_calls, last_scan, detected, wizard, serial_view >>

ParseFlashEOF(k) ==
    /\ mode = "flash"
    /\ parse_thread[k] = "alive"
    /\ pipe = <<>>
    /\ process[k].state = "exited"
    /\ parse_thread' = [parse_thread EXCEPT ![k] = "finished"]
    /\ UNCHANGED << mode, environments, target_env, pc, i, process, pipe, emitted,
                    progress, output_lines, successful_builds, flash_result, bar, rendered,
                    console, elapsed, last_device_count, polls, found, popen_calls, last_scan, detected, wizard, serial_view >>

(***************************************************************************)
(* flasher.py: wait_for_device_connection.                                 *)
(***************************************************************************)
\* A variant of the loop condition that lets the loop run at the bound too.
wait_loop_condition_inclusive == elapsed <= timeout

\* while time.time() - start_time < timeout
wait_loop_condition == elapsed < timeout

\* One turn of the while loop: a scan, then a sleep of one time unit, which
\* with the scan takes 1 + slip units.  With a candidate the function
\* returns True after the sleep and its locals are gone; the caller goes on
\* to Popen.
WaitPoll ==
    /\ pc = "wait_loop"
    /\ wait_loop_condition
    /\ \E scan \in HostScans, slip \in 0 .. MaxSlip :
         LET devices == detect_serial_devices(scan).devices
         IN  /\ last_scan' = scan
             /\ detected' = detect_serial_devices(scan)
             /\ IF devices # <<>>
                THEN /\ found' = TRUE
                     /\ console' = Say("device_ready")
                     /\ pc' = "flash_popen"
                     /\ elapsed' = 0
                     /\ last_device_count' = -1
                     /\ polls' = 0
                ELSE /\ found' = found
                     /\ console' = IF last_device_count # 0
                                   THEN Say("no_devices_detected_yet")
                                   ELSE IF detect_serial_devices(scan).warning
                                   THEN Say("serial_detection_error")
                                   ELSE IF detect_serial_devices(scan).listing
                                   THEN Say("debug_all_detected_serial_devices")
                                   ELSE console
                     /\ pc' = pc
                     /\ elapsed' = elapsed + 1 + slip
                     /\ last_device_count' = 0
                     /\ polls' = polls + 1
    /\ UNCHANGED << mode, environments, target_env, i, process, parse_thread, pipe,
                    emitted, progress, output_lines, successful_builds, flash_result,
                    bar, rendered, popen_calls, wizard, serial_view >>

\* The loop condition fails: "No device found within 30 seconds", the
\* options are printed and input() is called.
WaitTimeout ==
    /\ pc = "wait_loop"
    /\ ~wait_loop_condition
    /\ console' = Say("no_device_found_within_timeout")
    /\ pc' = "wait_input"
    /\ UNCHANGED << mode, environments, target_env, i, process, parse_thread, pipe,
                    emitted, progress, output_lines, successful_builds, flash_result,
                    bar, rendered, elapsed, last_device_count, polls, found, popen_calls, last_scan, detected, wizard, serial_view >>

\* input() returns the user's choice; the wait returns False either way and
\* flash_target_with_progress lists the serial devices and returns False.
WaitInput ==
    /\ pc = "wait_input"
    /\ \E choice \in {"1", "2", ""}, scan \in HostScans :
         /\ console' = Say("all_visible_serial_devices")
         /\ serial_view' = list_all_serial_devices(scan)
    /\ flash_result' = "False"
    /\ pc' = "done"
    /\ UNCHANGED << mode, environments, target_env, i, process, parse_thread, pipe,
                    emitted, progress, output_lines, successful_builds, bar, rendered, elapsed,
                    last_device_count, polls, found, popen_calls, last_scan, detected, wizard >>

\* input() raises EOFError (standard input is closed): nothing catches it in
\* wait_for_device_connection or flash_target_with_progress.
WaitInputEOF ==
    /\ pc = "wait_input"
    /\ flash_result' = "EOFError"
    /\ pc' = "done"
    /\ UNCHANGED << mode, environments, target_env, i, process, parse_thread, pipe,
                    emitted, progress, output_lines, successful_builds, bar, rendered, console,
                    elapsed, last_device_count, polls, found, popen_calls, last_scan, detected, wizard, serial_view >>

(***************************************************************************)
(* flasher.py: flash_target_with_progress, the calling thread.             *)
(***************************************************************************)
FlashEntry ==
    /\ pc = "flash_entry"
    /\ IF target_env = None
       THEN /\ console' = Say("no_target_selected")
            /\ flash_result' = "False"
            /\ pc' = "done"
       ELSE /\ console' = Say("waiting_for_device_connection")
            /\ flash_result' = flash_result
            /\ pc' = "wait_loop"
    /\ UNCHANGED << mode, environments, target_env, i, process, parse_thread, pipe,
                    emitted, progress, output_lines, successful_builds, bar, rendered, elapsed,
                    last_device_count, polls, found, popen_calls, last_scan, detected, wizard, serial_view >>

FlashPopen ==
    /\ pc = "flash_popen"
    /\ popen_calls' = Append(popen_calls, target_env)
    /\ process' = [process EXCEPT ![1] = [state |-> "running", returncode |-> -1]]
    /\ pipe' = <<>>
    /\ emitted' = <<>>
    /\ progress' = StartingProgress
    /\ output_lines' = <<>>
    /\ parse_thread' = [parse_thread EXCEPT ![1] = "alive"]
    /\ pc' = "flash_wait"
    /\ last_scan' = NoScan
    /\ detected' = NoDevices
    /\ UNCHANGED << mode, environments, target_env, i, successful_builds, flash_result,
                    bar, rendered, console, elapsed, last_device_count, polls, found, wizard, serial_view >>

FlashSpawnFailure ==
    /\ pc = "flash_popen"
    /\ popen_calls' = Append(popen_calls, target_env)
    /\ process' = [process EXCEPT ![1] = [state |-> "spawn_failed", returncode |-> -1]]
    /\ console' = Say("error_flashing")
    /\ flash_result' = "False"
    /\ pc' = "done"
    /\ last_scan' = NoScan
    /\ detected' = NoDevices
    /\ UNCHANGED << mode, environments, target_env, i, parse_thread, pipe, emitted,
                    progress, output_lines, successful_builds, bar, rendered, elapsed,
                    last_device_count, polls, found, wizard, serial_view >>

FlashWait ==
    /\ pc = "flash_wait"
    /\ wait_returned(1)
    /\ pc' = "flash_join"
    /\ UNCHANGED << mode, environments, target_env, i, process, parse_thread, pipe,
                    emitted, progress, output_lines, successful_builds, flash_result,
                    bar, rendered, console, elapsed, last_device_count, polls, found, popen_calls, last_scan, detected, wizard, serial_view >>

FlashJoin ==
    /\ pc = "flash_join"
    /\ join_returned(1)
    /\ pc' = "flash_check"
    /\ UNCHANGED << mode, environments, target_env, i, process, parse_thread, pipe,
                    emitted, progress,
                    output_lines, successful_builds, flash_result, bar, rendered, console,
                    elapsed, last_device_count, polls, found, popen_calls, last_scan, detected, wizard, serial_view >>

FlashCheck ==
    /\ pc = "flash_check"
    /\ IF returncode_ok(1)
       THEN /\ bar' = Bar(target_env, "success", 0, 100)
            /\ rendered' = show_progress_bar(rendered, 100)
            /\ console' = Say("flashing_successful")
            /\ flash_result' = "True"
       ELSE /\ bar' = Bar(target_env, "failure", 0, progress.percentage)
            /\ rendered' = show_progress_bar(rendered, progress.percentage)
            /\ console' = flash_failure(detect_flash_errors(output_lines),
                                        process[1].returncode)
            /\ flash_result' = "False"
    /\ pc' = "done"
    /\ UNCHANGED << mode, environments, target_env, i, process, parse_thread, pipe,
                    emitted, progress, output_lines, successful_builds, elapsed,
                    last_device_count, polls, found, popen_calls, last_scan, detected, wizard, serial_view >>

(***************************************************************************)
(* The system.                                                             *)
(***************************************************************************)
Next ==
    \/ \E k \in Operations : ChildWrite(k)
    \/ \E k \in Operations : ChildExit(k)
    \/ \E k \in Operations : ParseBuildLine(k)
    \/ \E k \in Operations : ParseBuildDecodeError(k)
    \/ \E k \in Operations : ParseBuildEOF(k)
    \/ BuildEntry
    \/ BuildPopen
    \/ BuildSpawnFailure
    \/ BuildWait
    \/ BuildJoin
    \/ BuildCheck
    \/ BuildSummary
    \/ \E k \in Operations : ParseFlashLine(k)
    \/ \E k \in Operations : ParseFlashDecodeError(k)
    \/ \E k \in Operations : ParseFlashEOF(k)
    \/ FlashEntry
    \/ WaitPoll
    \/ WaitTimeout
    \/ WaitInput
    \/ WaitInputEOF
    \/ FlashPopen
    \/ FlashSpawnFailure
    \/ FlashWait
    \/ FlashJoin
    \/ FlashCheck

Spec == Init /\ [][Next]_vars

(***************************************************************************)
(* The end-to-end build scenario: every compile command writes one line    *)
(* for each of the dependency, compiling, linking, generating and          *)
(* completed patterns, in that order, and exits with code 0.  Between      *)
(* them it may write, once, a line that matches no pattern because it does *)
(* not decode.                                                             *)
(***************************************************************************)
ScenarioStages ==
    << BUILD_PATTERNS.dependency, BUILD_PATTERNS.compiling, BUILD_PATTERNS.linking,
       BUILD_PATTERNS.generating, BUILD_PATTERNS.completed >>

InitEndToEnd == Init /\ mode = "build" /\ environments # <<>>

\* The stage lines the child has written so far.
StageLines(lines) == SelectSeq(lines, LAMBDA line : line # Undecodable)

EndToEndChildWrite(k) ==
    /\ process[k].state = "running"
    /\ Len(pipe) < PipeCap
    /\ \E line \in BuildLines \cup {Undecodable} :
         /\ IF line = Undecodable
            THEN StageLines(emitted) = emitted
            ELSE /\ Len(StageLines(emitted)) < Len(ScenarioStages)
                 /\ re_search(ScenarioStages[Len(StageLines(emitted)) + 1], line)
         /\ pipe' = Append(pipe, line)
         /\ emitted' = Append(emitted, line)
    /\ UNCHANGED << mode, environments, target_env, pc, i, process, parse_thread,
                    progress, output_lines, successful_builds, flash_result, bar,
                    rendered, console, elapsed, last_device_count, polls, found,
                    popen_calls, last_scan, detected, wizard, serial_view >>

EndToEndChildExit(k) ==
    /\ process[k].state = "running"
    /\ Len(StageLines(emitted)) = Len(ScenarioStages)
    /\ process' = [process EXCEPT ![k] = [state |-> "exited", returncode |-> 0]]
    /\ UNCHANGED << mode, environments, target_env, pc, i, parse_thread, pipe, emitted,
                    progress, output_lines, successful_builds, flash_result, bar,
                    rendered, console, elapsed, last_device_count, polls, found,
                    popen_calls, last_scan, detected, wizard, serial_view >>

\* The build driver with the scenario's child.
NextEndToEnd ==
    \/ \E k \in Operations : EndToEndChildWrite(k)
    \/ \E k \in Operations : EndToEndChildExit(k)
    \/ \E k \in Operations : ParseBuildLine(k)
    \/ \E k \in Operations : ParseBuildDecodeError(k)
    \/ \E k \in Operations : ParseBuildEOF(k)
    \/ BuildEntry
    \/ BuildPopen
    \/ BuildWait
    \/ BuildJoin
    \/ BuildCheck
    \/ BuildSummary

SpecEndToEnd == InitEndToEnd /\ [][NextEndToEnd]_vars

(***************************************************************************)
(* The flash driver under its callers: wizard.py (menu loop, --full) and   *)
(* setup.py (--flash), with an interrupt (Ctrl+C, SIGINT) arriving while   *)
(* the calling thread is in the device wait.                               *)
(***************************************************************************)
\* class EOFError(Exception); SystemExit and KeyboardInterrupt derive from
\* BaseException only.
is_Exception(exc) == exc = "EOFError"

\* A variant in which the scan's handler is a bare except.
handles_bare_except(frame, exc) ==
    CASE frame = "detect_serial_devices" -> TRUE
      [] frame = "__main__" -> exc = "KeyboardInterrupt" \/ is_Exception(exc)
      [] OTHER -> FALSE

\* The except clauses around the device wait: 'except Exception' in
\* detect_serial_devices, 'except KeyboardInterrupt' and 'except Exception'
\* in setup.py's __main__; no other frame has a handler.
handles(frame, exc) ==
    CASE frame = "detect_serial_devices" -> is_Exception(exc)
      [] frame = "__main__" -> exc = "KeyboardInterrupt" \/ is_Exception(exc)
      [] OTHER -> FALSE

\* The frames of the calling thread, innermost first, when it is in the
\* scan, the sleep or the input() of the device wait.
CallStack(entry, where) ==
    (IF where = "scan" THEN << "detect_serial_devices" >> ELSE << >>)
    \o << "wait_for_device_connection", "flash_target_with_progress" >>
    \o (CASE entry = "menu" ->
               << "build_and_flash_workflow", "wizard.main", "setup.main", "__main__" >>
          [] entry = "full" ->
               << "build_and_flash_workflow", "complete_setup_workflow", "wizard.main",
                  "setup.main", "__main__" >>
          [] entry = "flash" -> << "flash_action", "setup.main", "__main__" >>
          [] OTHER -> << >>)

\* The frame whose handler the exception reaches, or the interpreter.
RECURSIVE catcher(_, _)
catcher(exc, stack) ==
    IF stack = << >> THEN "interpreter"
    ELSE IF handles(Head(stack), exc) THEN Head(stack)
    ELSE catcher(exc, Tail(stack))

\* What SIGINT raises in the calling thread: wizard.main installs
\* signal_handler, which calls sys.exit(0); otherwise Python's default
\* handler raises KeyboardInterrupt.
raised_by_sigint(entry) ==
    IF entry \in {"menu", "full"} THEN "SystemExit" ELSE "KeyboardInterrupt"

\* SIGINT during the device wait.  An exception that a handler inside the
\* wait catches makes the scan return with the warning; one that leaves the
\* wait ends the process ("Setup cancelled by user", exit code 0).
Interrupt ==
    /\ pc \in {"wait_loop", "wait_input"}
    /\ wizard.at = "in_step"
    /\ ~wizard.interrupted
    /\ \E where \in (IF pc = "wait_loop" THEN {"scan", "sleep"} ELSE {"input"}) :
         LET exc == raised_by_sigint(wizard.entry)
         IN  IF catcher(exc, CallStack(wizard.entry, where)) = "detect_serial_devices"
             THEN /\ console' = Say("serial_detection_error")
                  /\ last_scan' = [ports |-> << >>, error |-> TRUE]
                  /\ detected' = [devices |-> << >>, listing |-> FALSE, warning |-> TRUE]
                  /\ wizard' = [wizard EXCEPT !.interrupted = TRUE]
                  /\ UNCHANGED << pc, flash_result, serial_view >>
             ELSE /\ console' = Say("setup_cancelled_by_user")
                  /\ flash_result' = exc
                  /\ pc' = "aborted"
                  /\ wizard' = [wizard EXCEPT !.interrupted = TRUE, !.at = "exit"]
                  /\ UNCHANGED << last_scan, detected, serial_view >>
    /\ UNCHANGED << mode, environments, target_env, i, process, parse_thread, pipe,
                    emitted, progress, output_lines, successful_builds, bar, rendered,
                    elapsed, last_device_count, polls, found, popen_calls, serial_view >>

\* flash_target_with_progress has returned, or input() has raised EOFError:
\* the caller goes on.  EOFError reaches 'except Exception' in __main__
\* (exit code 1); --flash exits with the result; the wizard asks for the
\* serial monitor after a success, and after a failure returns to the menu
\* (menu loop) or exits (--full).
WizardReturn ==
    /\ pc = "done"
    /\ wizard.at = "in_step"
    /\ wizard.entry # "call"
    /\ wizard' = [wizard EXCEPT !.at =
          IF flash_result = "EOFError"
          THEN (IF catcher("EOFError", CallStack(wizard.entry, "input")) = "__main__"
                THEN "exit" ELSE "traceback")
          ELSE IF wizard.entry = "flash" THEN "exit"
          ELSE IF flash_result = "True" THEN "serial_monitor_prompt"
          ELSE IF wizard.entry = "menu" THEN "menu"
          ELSE "exit"]
    /\ UNCHANGED << mode, environments, target_env, pc, i, process, parse_thread, pipe,
                    emitted, progress, output_lines, successful_builds, flash_result, bar,
                    rendered, console, elapsed, last_device_count, polls, found,
                    popen_calls, last_scan, detected, serial_view >>

InitWizard ==
    /\ InitWith({"menu", "full", "flash"})
    /\ mode = "flash"
    /\ target_env # None

NextWizard ==
    \/ \E k \in Operations : ChildWrite(k)
    \/ \E k \in Operations : ChildExit(k)
    \/ \E k \in Operations : ParseFlashLine(k)
    \/ \E k \in Operations : ParseFlashDecodeError(k)
    \/ \E k \in Operations : ParseFlashEOF(k)
    \/ FlashEntry
    \/ WaitPoll
    \/ WaitTimeout
    \/ WaitInput
    \/ WaitInputEOF
    \/ Interrupt
    \/ FlashPopen
    \/ FlashSpawnFailure
    \/ FlashWait
    \/ FlashJoin
    \/ FlashCheck
    \/ WizardReturn

SpecWizard == InitWizard /\ [][NextWizard]_vars

(***************************************************************************)
(* Properties of the progress tables.                                      *)
(***************************************************************************)
\* The drain thread of the running operation has taken one line: logged it
\* and passed it to the progress update.
LineTaken == Len(output_lines') = Len(output_lines) + 1

\* C1: within one build operation the percentage is non-decreasing: for
\* every prior state and every output line, the percentage after
\* update_build_progress is at least the percentage before it.
C1_BuildPercentageNonDecreasing ==
    [][(mode = "build" /\ LineTaken)
          => progress'.percentage >= progress.percentage]_vars

\* C2: within one flash operation the percentage never regresses, for any
\* sequence of output lines in any order: the percentage after
\* update_flash_progress is at least the percentage before it.
C2_FlashPercentageNeverRegresses ==
    [][(mode = "flash" /\ LineTaken)
          => progress'.percentage >= progress.percentage]_vars

(***************************************************************************)
(* Properties of the drain thread and the calling thread.                  *)
(***************************************************************************)
\* The lines among those written that are text in the pipe's encoding.
Decodable(lines) == SelectSeq(lines, LAMBDA line : line # Undecodable)

Stripped(lines) == [k \in 1 .. Len(lines) |-> strip(lines[k])]

\* The progress dict after the lines were passed to the progress update of
\* the running driver once each, in order, starting from p.
RECURSIVE Updated(_, _)
Updated(lines, p) ==
    IF lines = <<>> THEN p
    ELSE Updated(Tail(lines),
                 IF mode = "build"
                 THEN update_build_progress(Head(lines), p)
                 ELSE update_flash_progress(Head(lines), p))

\* C3: in both drivers, when the calling thread comes to inspect the exit
\* code, every line of text the child wrote before it exited has been
\* appended to the output log and passed to the progress update exactly
\* once, in the order written.
C3_EveryLineDeliveredBeforeOutcome ==
    pc \in {"build_check", "flash_check"}
        => /\ output_lines = Stripped(Decodable(emitted))
           /\ progress = Updated(Stripped(Decodable(emitted)), StartingProgress)

(***************************************************************************)
(* Properties of the error classifiers.                                    *)
(***************************************************************************)
\* The error table of the running driver.
Signatures == IF mode = "build" THEN ERROR_PATTERNS ELSE FLASH_ERROR_PATTERNS

\* The entries of the table that match the line, and the lines of a log
\* that some entry matches.
Matches(line) ==
    { s \in 1 .. Len(Signatures) : re_search(Signatures[s].pattern, line) }
MatchingLines(lines) == { k \in 1 .. Len(lines) : Matches(lines[k]) # {} }

\* The driver has run the classifier on output_lines and printed its
\* diagnosis, or found none and printed the exit code.
Diagnosed == console.kind \in {"build_error", "flash_error"}
Undiagnosed ==
    console.kind \in {"build_failed_with_exit_code", "flashing_failed_with_exit_code"}

\* C4: the classifiers scan line-major: the diagnosis comes from the
\* earliest line of the log that matches any signature, also when a later
\* line matches a signature of higher priority; there is none exactly when
\* no line matches any signature.
C4_EarliestMatchingLineWins ==
    /\ Diagnosed =>
         \E k \in MatchingLines(output_lines) :
            /\ \A j \in MatchingLines(output_lines) : k <= j
            /\ console.error.line = output_lines[k]
            /\ \E s \in Matches(output_lines[k]) : console.error.type = Signatures[s].type
    /\ Undiagnosed => MatchingLines(output_lines) = {}

\* A build log whose first matching line is a permission-denied line and
\* whose next line is a missing-library line was classified permission_denied.
C4_Witness ==
    /\ console.kind = "build_error"
    /\ Len(output_lines) = 2
    /\ Matches(output_lines[1]) = {3}
    /\ 1 \in Matches(output_lines[2])
    /\ console.error.type = "permission_denied"

TypesOf(table) == [s \in 1 .. Len(table) |-> table[s].type]

\* C5: when the diagnosed line matches several signatures, the diagnosis is
\* the one earliest in table order, the order being missing_library,
\* compilation_error, permission_denied for build and device_not_found,
\* connection_timeout, permission_denied for flash.
C5_EarliestSignatureWins ==
    /\ TypesOf(ERROR_PATTERNS) =
         << "missing_library", "compilation_error", "permission_denied" >>
    /\ TypesOf(FLASH_ERROR_PATTERNS) =
         << "device_not_found", "connection_timeout", "permission_denied" >>
    /\ Diagnosed =>
         LET matching == Matches(console.error.line)
             first == CHOOSE s \in matching : \A t \in matching : s <= t
         IN  /\ matching # {}
             /\ console.error.type = Signatures[first].type
             /\ console.error.solution = Signatures[first].solution
             /\ console.error.message.template = Signatures[first].message

\* A line matching both 'fatal error: X.h: No such file' and 'error: ...'
\* was classified missing_library.
C5_Witness ==
    /\ console.kind = "build_error"
    /\ {1, 2} \subseteq Matches(console.error.line)
    /\ console.error.type = "missing_library"

(***************************************************************************)
(* Properties of the build driver.                                         *)
(***************************************************************************)
\* The child of operation k is running or its drain thread is.
Alive(k) == process[k].state = "running" \/ parse_thread[k] = "alive"

\* C6: build_project_with_progress on N targets attempts the launch once per
\* target, in request order, N times in all when it returns (none for an
\* empty list); no two operations are ever alive together, and a target is
\* launched only when every earlier target's child has exited (or failed to
\* start) and its drain thread has ended and been joined.
C6_OneLaunchPerTargetSequentially ==
    mode = "build" =>
        /\ Len(popen_calls) <= Len(environments)
        /\ popen_calls = SubSeq(environments, 1, Len(popen_calls))
        /\ pc = "done" => popen_calls = environments
        /\ \A k, j \in Operations : k # j => ~(Alive(k) /\ Alive(j))
        /\ \A k \in 1 .. Len(popen_calls) - 1 :
              /\ process[k].state \in {"exited", "spawn_failed"}
              /\ parse_thread[k] # "alive"

\* Two targets were requested, both children ran and exited, and the call
\* has returned.
C6_Witness ==
    /\ mode = "build"
    /\ pc = "done"
    /\ Len(environments) = 2
    /\ popen_calls = environments
    /\ \A k \in 1 .. 2 : process[k].state = "exited" /\ parse_thread[k] = "finished"

\* The child of target k was launched and exited with code 0.
Succeeded(k) == process[k].state = "exited" /\ process[k].returncode = 0

\* C7: the list build_project_with_progress returns holds exactly the
\* requested targets whose child was launched and exited with code 0, each
\* once, in request order.
C7_ReturnsExactlyTheSucceededTargets ==
    /\ \A a \in 1 .. Len(successful_builds) :
          /\ \E k \in 1 .. Len(environments) : environments[k] = successful_builds[a]
          /\ \A b \in 1 .. Len(successful_builds) :
                a # b => successful_builds[a] # successful_builds[b]
    /\ (mode = "build" /\ pc = "done") =>
          successful_builds =
              SelectSeq(environments,
                        LAMBDA env : \E k \in 1 .. Len(environments) :
                                        environments[k] = env /\ Succeeded(k))

\* Of two targets the first failed (exit code 1) and the second succeeded:
\* the list returned is the second alone.
C7_Witness ==
    /\ mode = "build"
    /\ pc = "done"
    /\ Len(environments) = 2
    /\ process[1] = [state |-> "exited", returncode |-> 1]
    /\ Succeeded(2)
    /\ successful_builds = << environments[2] >>

(***************************************************************************)
(* Properties of the flash driver's device wait.                           *)
(***************************************************************************)
\* The device wait has timed out: no scan of it returned a candidate, "No
\* device found within 30 seconds" is printed.
TimedOut == pc = "wait_input"

\* C8, as stated: with a timeout of T and no candidate device ever
\* appearing, the wait times out after ceil(T) poll iterations, and the
\* upload child is never launched.
C8_TimeoutAfterExactlyTPolls ==
    TimedOut => polls = timeout /\ popen_calls = <<>>

\* C8, amended: with a timeout of T and no candidate device ever appearing,
\* the wait times out after at least one and at most ceil(T) poll
\* iterations, when T or more time units have passed, and the upload child
\* is not launched.
C8_TimeoutAfterAtMostTPolls ==
    TimedOut =>
        /\ 1 <= polls /\ polls <= timeout
        /\ elapsed >= timeout
        /\ ~found
        /\ console.kind = "no_device_found_within_timeout"
        /\ popen_calls = <<>>
        /\ process[1] = NoProcess

\* The wait timed out after fewer than T poll iterations.
C8_Witness == TimedOut /\ polls < timeout /\ popen_calls = <<>>

\* C9: the upload child is launched only after some scan of the device
\* wait of that call returned a candidate; with no target given, or the wait
\* failed, no child is launched and the call returns False.
C9_LaunchOnlyAfterDeviceFound ==
    mode = "flash" =>
        /\ popen_calls # <<>> => found
        /\ (pc = "done" /\ (target_env = None \/ ~found)) =>
              /\ popen_calls = <<>>
              /\ flash_result = "False"

(***************************************************************************)
(* Properties of the terminal stage.                                       *)
(***************************************************************************)
\* The line the drain thread has just taken.
TakenLine == output_lines'[Len(output_lines')]

\* The line matches the terminal pattern of the running driver's table.
MatchesComplete(line) ==
    IF mode = "build"
    THEN re_search(BUILD_PATTERNS.completed, line)
    ELSE re_search(FLASH_PATTERNS.reset, line)

\* The line matches a pattern that the progress update tests before the
\* terminal one.
MatchesEarlierStage(line) ==
    IF mode = "build"
    THEN \/ re_search(BUILD_PATTERNS.dependency, line)
         \/ re_search(BUILD_PATTERNS.compiling, line)
         \/ re_search(BUILD_PATTERNS.linking, line)
         \/ re_search(BUILD_PATTERNS.generating, line)
    ELSE \/ re_search(FLASH_PATTERNS.detecting, line)
         \/ re_search(FLASH_PATTERNS.connecting, line)
         \/ re_search(FLASH_PATTERNS.chip_info, line)
         \/ re_search(FLASH_PATTERNS.erasing, line)
         \/ re_search(FLASH_PATTERNS.writing, line)
         \/ re_search(FLASH_PATTERNS.verification, line)

\* C10, as stated: a line matching the terminal 'complete' pattern leaves
\* the percentage at exactly 100 whatever the prior state, also when the
\* line matches an earlier stage pattern as well.
C10_CompleteLineGives100 ==
    [][(LineTaken /\ MatchesComplete(TakenLine))
          => progress'.percentage = 100]_vars

\* C10, amended: a line matching the terminal 'complete' pattern and no
\* pattern tested before it leaves the percentage at exactly 100 and the
\* stage at Complete whatever the prior state, also when the percentage
\* was 100 already.
C10_CompleteOnlyLineGives100 ==
    [][(LineTaken /\ MatchesComplete(TakenLine) /\ ~MatchesEarlierStage(TakenLine))
          => progress'.percentage = 100 /\ progress'.stage = "Complete"]_vars

\* A complete line was applied to a state already at 100 by an earlier
\* complete line, and the percentage is 100.
C10_Witness ==
    /\ Len(output_lines) = 2
    /\ \A k \in 1 .. 2 :
          MatchesComplete(output_lines[k]) /\ ~MatchesEarlierStage(output_lines[k])
    /\ progress.percentage = 100

(***************************************************************************)
(* Properties of the percentage's value.                                   *)
(***************************************************************************)
\* The drain thread of the flash driver has just taken a write line.
WriteLineTaken ==
    mode = "flash" /\ LineTaken /\ re_search(FLASH_PATTERNS.writing, TakenLine)

\* C11, as stated: for every N in 0..100 a write line '... (N %)' sets the
\* percentage to 40 + round(N * (90 - 40) / 100), whatever it was before.
C11_WriteRescaleRounds ==
    [][(WriteLineTaken /\ TakenLine.n \in 0 .. 100)
          => progress'.percentage = 40 + round_half(TakenLine.n)]_vars

\* C11, amended: for every N in 0..100 a write line '... (N %)' sets the
\* percentage to 40 + N * (90 - 40) / 100 truncated to an integer, that is
\* 40 + floor(N / 2), whatever it was before, and the stage to the writing
\* label carrying N.
C11_WriteRescaleTruncates ==
    [][(WriteLineTaken /\ TakenLine.n \in 0 .. 100)
          => /\ 2 * (progress'.percentage - 40) <= TakenLine.n
             /\ TakenLine.n < 2 * (progress'.percentage - 40) + 2
             /\ progress'.stage = "Writing (N%)"
             /\ progress'.stage_n = TakenLine.n]_vars

\* A write line with an odd N, 3, was taken after another stage had set the
\* percentage, and the percentage is 41.
C11_Witness ==
    /\ mode = "flash"
    /\ Len(output_lines) = 2
    /\ ~re_search(FLASH_PATTERNS.writing, output_lines[1])
    /\ output_lines[2] = WriteLine(3)
    /\ progress.percentage = 41

\* C12: in every state of a build or flash operation the percentage is an
\* integer in 0..100, for any sequence of output lines, the write lines
\* carrying any non-negative number included.
C12_PercentageWithin0To100 == progress.percentage \in 0 .. 100

(***************************************************************************)
(* Properties of the end-to-end scenarios.                                 *)
(***************************************************************************)
\* The target whose operation the build loop has ended last, 0 before the
\* first has ended.
LastTarget ==
    IF pc \in {"build_summary", "done"} THEN i
    ELSE IF pc = "build_popen" THEN i - 1
    ELSE 0

\* The last operation was a child that exited with code 0, and the driver
\* has checked its result.
JustSucceeded == mode = "build" /\ LastTarget >= 1 /\ Succeeded(LastTarget)

NonDecreasing(seq) == \A a, b \in 1 .. Len(seq) : a <= b => seq[a] <= seq[b]
Count(seq, v) == Cardinality({ a \in 1 .. Len(seq) : seq[a] = v })
IsIn(seq, v) == \E a \in 1 .. Len(seq) : seq[a] = v

\* C13, as stated: in the end-to-end build scenario the percentages drawn
\* are non-decreasing and reach 100 exactly once, and the target is in the
\* list returned.
C13_EndToEndReaches100Once ==
    JustSucceeded =>
        /\ NonDecreasing(rendered)
        /\ Count(rendered, 100) = 1
        /\ IsIn(successful_builds, environments[LastTarget])

\* The completed line reached the progress update and was handled as the
\* completed stage.
CompletedLineApplied ==
    /\ Len(output_lines) = Len(ScenarioStages)
    /\ ~MatchesEarlierStage(output_lines[Len(ScenarioStages)])

\* C13, amended: in the end-to-end build scenario the percentages drawn are
\* non-decreasing and end at 100, and the target is in the list returned;
\* 100 is drawn by the final success bar and, before it, by the progress
\* update of the completed line when that line reached the update and
\* matches no earlier stage pattern: twice in all then, once otherwise.
C13_EndToEndEndsAt100 ==
    JustSucceeded =>
        /\ NonDecreasing(rendered)
        /\ rendered # <<>> /\ rendered[Len(rendered)] = 100
        /\ Count(rendered, 100) = IF CompletedLineApplied THEN 2 ELSE 1
        /\ IsIn(successful_builds, environments[LastTarget])

\* The scenario ran with lines that each match one stage pattern only: the
\* bars drawn are 2, 15, 70, 85, 100 and the success bar at 100.
C13_Witness ==
    /\ JustSucceeded
    /\ rendered = << 2, 15, 70, 85, 100, 100 >>
    /\ successful_builds # <<>>

\* The last operation was a child that exited with a code other than 0, and
\* the driver has checked its result and printed the outcome.
JustFailed ==
    /\ mode = "build" /\ pc \in {"build_popen", "build_summary"}
    /\ LastTarget >= 1
    /\ process[LastTarget].state = "exited" /\ process[LastTarget].returncode # 0

\* The lines the child wrote that match the missing-header signature with no
\* line before them matching any signature.
FirstMissingHeaderLines ==
    { k \in 1 .. Len(emitted) :
        /\ re_search(ERROR_PATTERNS[1].pattern, emitted[k])
        /\ \A j \in 1 .. k - 1 : Matches(emitted[j]) = {} }

\* C14: when the compile command wrote a line 'fatal error: foo.h: No such
\* file', no line before it matching a signature, and exited with a code
\* other than 0, the driver prints the diagnosis missing_library with the
\* message 'Missing library: foo.h' (the captured header name substituted)
\* and that line as the offending line.
C14_MissingHeaderDiagnosed ==
    \A k \in FirstMissingHeaderLines :
        JustFailed =>
            /\ console.kind = "build_error"
            /\ console.error.type = "missing_library"
            /\ console.error.message = [template |-> "Missing library: {}", arg |-> "foo.h"]
            /\ console.error.line = strip(emitted[k])

(***************************************************************************)
(* Properties of the failure outcomes.                                     *)
(***************************************************************************)
\* The child of the last operation exited with a code other than 0 and the
\* driver has printed the outcome.
FlashJustFailed ==
    /\ mode = "flash" /\ pc = "done"
    /\ process[1].state = "exited" /\ process[1].returncode # 0
FailedOperation == IF mode = "build" THEN LastTarget ELSE 1

\* C15: when the child exited with a code other than 0 and no line of its
\* output log matches a signature, the driver prints the exit code and no
\* diagnosis; when some line of the log matches, it prints a diagnosis and
\* not the exit code.
C15_ExitCodeOnlyWhenUndiagnosed ==
    (JustFailed \/ FlashJustFailed) =>
        IF MatchingLines(output_lines) = {}
        THEN /\ Undiagnosed
             /\ console.error = NoError
             /\ console.code = process[FailedOperation].returncode
        ELSE /\ Diagnosed
             /\ console.error.type # None
             /\ console.code = -1

\* A build whose child wrote lines, none matching a signature, and exited
\* with code 1: the driver printed the exit code.
C15_Witness ==
    /\ JustFailed /\ Len(output_lines) = 2 /\ MatchingLines(output_lines) = {}
    /\ console = Console("build_failed_with_exit_code", NoError, 1)

\* C16: a child that could not be launched is an outcome of its own: no
\* diagnosis and no exit code are printed for it (the classifier is not
\* run, nothing says 'failed with exit code'), the driver prints the launch
\* error, and the target is not among the succeeded ones.
C16_LaunchFailureIsItsOwnOutcome ==
    /\ \A k \in Operations :
          process[k].state = "spawn_failed" =>
              IF mode = "build"
              THEN ~IsIn(successful_builds, environments[k])
              ELSE flash_result = "False"
    /\ (mode = "build" /\ pc \in {"build_popen", "build_check", "build_summary"}
           /\ LastTarget >= 1 /\ process[LastTarget].state = "spawn_failed")
          => console = Say("error_building")
    /\ (mode = "flash" /\ process[1].state = "spawn_failed")
          => /\ pc = "done"
             /\ console = Say("error_flashing")
    /\ \A k \in Operations :
          (pc \in {"build_check", "flash_check"} /\ i = k)
              => process[k].state # "spawn_failed"

\* A build of two targets: the first could not be launched, the second was
\* launched and succeeded.
C16_Witness ==
    /\ mode = "build" /\ pc = "done"
    /\ process[1].state = "spawn_failed"
    /\ Len(environments) = 2
    /\ successful_builds = << environments[2] >>

(***************************************************************************)
(* Properties of the device classifier.                                    *)
(***************************************************************************)
\* The device wait has called detect_serial_devices: last_scan holds what
\* the enumeration gave it and detected what it returned.
Scanned == mode = "flash" /\ (polls > 0 \/ pc = "flash_popen")

\* The ports of the last scan, by position, and the positions returned.
Visible == 1 .. Len(last_scan.ports)
Accepted(k) ==
    \E a \in 1 .. Len(detected.devices) :
        /\ detected.devices[a].port = last_scan.ports[k].device
        /\ detected.devices[a].hwid = last_scan.ports[k].hwid
        /\ detected.devices[a].vid = last_scan.ports[k].vid

\* 0x303A, 0x10C4, 0x1A86, 0x0403, 0x067B
AllowListedVendorIds == {12346, 4292, 6790, 1027, 1659}
VendorIdRule(port) == port.vid \cap AllowListedVendorIds # {}

\* C17: every port of a scan whose vendor ID is in the allow-list is among
\* the devices returned, whatever its description, hardware ID and path.
C17_AllowListedVendorAccepted ==
    Scanned => \A k \in Visible : VendorIdRule(last_scan.ports[k]) => Accepted(k)

\* A port on a legacy path with the default description and hardware ID and
\* an FTDI vendor ID was the only port, and was returned.
C17_Witness ==
    /\ Scanned
    /\ last_scan.ports = << Port("/dev/ttyS4", "n/a", "n/a", {1027}) >>
    /\ Len(detected.devices) = 1

\* C18: no port of a scan whose description and hardware ID are both empty
\* is among the devices returned, whatever its path and vendor ID.
C18_EmptyPortNeverAccepted ==
    Scanned =>
        \A k \in Visible :
            (last_scan.ports[k].description = "" /\ last_scan.ports[k].hwid = "")
                => ~Accepted(k)

\* The three rules as stated: the description counts as non-trivial when it
\* contains 'usb' or 'serial', or is present and not the default 'n/a'.
SubstringRule(port) ==
    port.description \in ContainsEspPattern \/ port.hwid \in ContainsEspPattern
PathRule(port) ==
    /\ port.device \in SerialDevicePaths
    /\ \/ port.description \in ContainsUsbOrSerial
       \/ port.description \notin {"", "n/a"}
SatisfiesARule(port) == VendorIdRule(port) \/ SubstringRule(port) \/ PathRule(port)

\* C19: the devices returned are exactly the ports of the scan that satisfy
\* one of the three rules, in enumeration order.
C19_ExactlyThePortsSatisfyingARule ==
    Scanned =>
        LET accepted == SelectSeq(last_scan.ports, SatisfiesARule)
        IN  /\ Len(detected.devices) = Len(accepted)
            /\ \A a \in 1 .. Len(accepted) :
                  /\ detected.devices[a].port = accepted[a].device
                  /\ detected.devices[a].hwid = accepted[a].hwid
                  /\ detected.devices[a].vid = accepted[a].vid

\* C20: a scan of a host with no serial port returns the empty list and
\* prints neither the warning nor the debug listing.
C20_NoPortsNothingReturnedNothingPrinted ==
    (Scanned /\ last_scan.ports = <<>> /\ ~last_scan.error) =>
        /\ detected.devices = <<>>
        /\ ~detected.warning
        /\ ~detected.listing
        /\ pc \in {"wait_loop", "wait_input", "done"}

\* The second scan of a wait found no port, like the first.
C20_Witness ==
    /\ Scanned /\ polls = 2
    /\ last_scan.ports = <<>> /\ ~last_scan.error
    /\ detected.devices = <<>>

\* C21: when the enumeration of the ports fails, before the first port or
\* after some ports were examined, detect_serial_devices prints the warning
\* and returns the empty list.
C21_EnumerationFailureGivesNoDevices ==
    (Scanned /\ last_scan.error) =>
        /\ detected.warning
        /\ detected.devices = <<>>

(***************************************************************************)
(* Properties of the reports to the rendering boundary.                    *)
(***************************************************************************)
\* C22: every change a progress update makes to the progress state, of the
\* percentage or of the stage label, is drawn at once as a bar with the new
\* stage label and percentage, and nothing is drawn when the state did not
\* change.
C22_EveryStateChangeReported ==
    [][LineTaken =>
         IF progress' # progress
         THEN /\ rendered' = Append(rendered, progress'.percentage)
              /\ bar'.stage = progress'.stage
              /\ bar'.stage_n = progress'.stage_n
              /\ bar'.percentage = progress'.percentage
         ELSE /\ rendered' = rendered
              /\ bar' = bar]_vars

\* The stage entries of the running driver's table that its progress update
\* uses, in table order, and the positions of those matching a line.
StageOrder ==
    IF mode = "build"
    THEN << "dependency", "compiling", "linking", "generating", "completed" >>
    ELSE << "detecting", "connecting", "chip_info", "erasing", "writing",
            "verification", "reset" >>
StagePattern(s) == IF mode = "build" THEN BUILD_PATTERNS[s] ELSE FLASH_PATTERNS[s]
StagesMatching(line) ==
    { k \in 1 .. Len(StageOrder) : re_search(StagePattern(StageOrder[k]), line) }

\* What one entry of the table produces, applied alone to a line in state p.
EntryAlone(s, line, p) ==
    CASE s = "dependency" ->
           [percentage |-> Min(15, p.percentage + 2), stage |-> "Dependencies", stage_n |-> 0]
      [] s = "compiling" ->
           [percentage |-> Max(15, Min(70, p.percentage + 3)), stage |-> "Compiling", stage_n |-> 0]
      [] s = "linking" ->
           [percentage |-> Max(70, Min(85, p.percentage + 5)), stage |-> "Linking", stage_n |-> 0]
      [] s = "generating" ->
           [percentage |-> Max(85, Min(95, p.percentage + 5)), stage |-> "Generating", stage_n |-> 0]
      [] s = "completed" -> [percentage |-> 100, stage |-> "Complete", stage_n |-> 0]
      [] s = "detecting" -> [percentage |-> 10, stage |-> "Device detected", stage_n |-> 0]
      [] s = "connecting" -> [percentage |-> 20, stage |-> "Connecting", stage_n |-> 0]
      [] s = "chip_info" -> [percentage |-> 30, stage |-> "Chip identified", stage_n |-> 0]
      [] s = "erasing" -> [percentage |-> 40, stage |-> "Erasing flash", stage_n |-> 0]
      [] s = "writing" ->
           [percentage |-> 40 + (line.n \div 2), stage |-> "Writing (N%)", stage_n |-> line.n]
      [] s = "verification" -> [percentage |-> 95, stage |-> "Verifying", stage_n |-> 0]
      [] s = "reset" -> [percentage |-> 100, stage |-> "Complete", stage_n |-> 0]

\* C23: for a line that matches more than one stage pattern only the first
\* matching entry, in table order, is applied: the percentage and the stage
\* label after the update are those this entry alone produces, and at most
\* one bar is drawn for the line.
C23_FirstMatchingStageOnly ==
    [][(LineTaken /\ Cardinality(StagesMatching(TakenLine)) > 1) =>
          /\ \E k \in StagesMatching(TakenLine) :
                /\ \A j \in StagesMatching(TakenLine) : k <= j
                /\ progress' = EntryAlone(StageOrder[k], TakenLine, progress)
          /\ Len(rendered') <= Len(rendered) + 1]_vars

\* A build log of a linking line and a line matching both the linking and
\* the completed pattern: the second was handled as linking, 70 then 75.
C23_Witness ==
    /\ mode = "build"
    /\ Len(output_lines) = 2
    /\ StagesMatching(output_lines[1]) = {3}
    /\ StagesMatching(output_lines[2]) = {3, 5}
    /\ progress = [percentage |-> 75, stage |-> "Linking", stage_n |-> 0]
    /\ rendered = << 70, 75 >>

\* A drain thread has read the line at the head of the pipe.
LineRead ==
    /\ pipe # <<>> /\ Head(pipe) # Undecodable
    /\ pipe' = Tail(pipe)
    /\ pc' = pc

\* C24: a line that matches no stage pattern the progress update uses (a
\* flash line matching only the 'features' pattern included) leaves the
\* percentage and the stage label as they were and draws nothing; the line
\* is appended to the output log all the same.
C24_UnmatchedLineChangesNothing ==
    [][(LineRead /\ StagesMatching(strip(Head(pipe))) = {}) =>
          /\ progress' = progress
          /\ rendered' = rendered
          /\ bar' = bar
          /\ output_lines' = Append(output_lines, strip(Head(pipe)))]_vars

\* A flash log of a chip line and a features line: the state is the one the
\* chip line gave, one bar was drawn.
C24_Witness ==
    /\ mode = "flash"
    /\ Len(output_lines) = 2
    /\ re_search(FLASH_PATTERNS.chip_info, output_lines[1])
    /\ re_search(FLASH_PATTERNS.features, output_lines[2])
    /\ progress = [percentage |-> 30, stage |-> "Chip identified", stage_n |-> 0]
    /\ rendered = << 30 >>

(***************************************************************************)
(* Properties of the failure policy.                                       *)
(***************************************************************************)
\* The operation the calling thread is at: the build loop's target, or the
\* one upload of a flash.
CurrentOperation == IF mode = "build" THEN i ELSE 1

\* C25: no child is launched a second time: every launch is for a target
\* that no launch of this call was for, at most one launch in a flash call,
\* and the record of an operation that ended, with whatever exit code or by
\* a launch failure, never changes again.
C25_NoRelaunch ==
    [][/\ popen_calls' # popen_calls =>
             /\ Len(popen_calls') = Len(popen_calls) + 1
             /\ SubSeq(popen_calls', 1, Len(popen_calls)) = popen_calls
             /\ Count(popen_calls, popen_calls'[Len(popen_calls')]) = 0
             /\ mode = "flash" => popen_calls = <<>>
             /\ process[CurrentOperation].state = "none"
       /\ \A k \in Operations :
             process[k].state \in {"exited", "spawn_failed"} => process'[k] = process[k]]_vars

\* A build of two targets has returned: the first child exited with code 1,
\* the second could not be launched, and each was launched once.
C25_Witness ==
    /\ mode = "build" /\ pc = "done"
    /\ Len(environments) = 2
    /\ process[1] = [state |-> "exited", returncode |-> 1]
    /\ process[2].state = "spawn_failed"
    /\ popen_calls = environments

(***************************************************************************)
(* Properties of the device wait under its callers.                        *)
(***************************************************************************)
\* C26: an interrupt raised while the flash driver is in its device wait
\* aborts the whole wizard, started through the menu, --full or --flash
\* alike: the wait does not return a result, no upload is launched, and the
\* caller is neither back in the menu loop nor at a later workflow step.
C26_InterruptAbortsTheWizard ==
    wizard.interrupted =>
        /\ pc = "aborted"
        /\ flash_result \notin {"True", "False"}
        /\ popen_calls = << >>
        /\ wizard.at = "exit"

\* The interactive wizard was interrupted after two scans that found no
\* device, and has exited.
C26_Witness ==
    /\ wizard = [entry |-> "menu", at |-> "exit", interrupted |-> TRUE]
    /\ polls = 2
    /\ pc = "aborted"

\* C27: every failure of a flash operation, a device timeout (also with the
\* standard input closed), a launch failure, a diagnosed or undiagnosed
\* non-zero exit, ends with flash_target_with_progress returning False; a
\* call that ended has returned True or False, True only after a child that
\* exited with code 0.
C27_FlashFailureReturnsFalse ==
    (mode = "flash" /\ pc = "done") =>
        /\ flash_result \in {"True", "False"}
        /\ flash_result = "True" <=> Succeeded(1)


(***************************************************************************)
(* The device wait on its own, with the progress its thread makes by       *)
(* itself: the scan returns and time.sleep(1) ends (WaitPoll), the loop    *)
(* condition is evaluated (WaitTimeout), the caller enters the wait        *)
(* (FlashEntry).  What input() returns, and when, is the user's doing: no  *)
(* fairness is stated for WaitInput and WaitInputEOF.                      *)
(***************************************************************************)
InitDeviceWait == Init /\ mode = "flash" /\ target_env # None

NextDeviceWait ==
    \/ FlashEntry
    \/ WaitPoll
    \/ WaitTimeout
    \/ WaitInput
    \/ WaitInputEOF

SpecDeviceWait ==
    /\ InitDeviceWait
    /\ [][NextDeviceWait]_vars
    /\ WF_vars(FlashEntry)
    /\ WF_vars(WaitPoll)
    /\ WF_vars(WaitTimeout)

\* The polling loop itself is bounded: it is left after at most 30 turns.
WaitLoopEnds == (pc = "wait_loop") ~> (pc # "wait_loop")

\* C28: the device wait is bounded by its timeout: once entered, the wait
\* ends by itself, with a device found (the upload is next) or, if none
\* appears, with the flash call over (failure returned), however long the
\* user takes to type anything.
C28_WaitEndsWithoutUserInput ==
    (pc = "wait_loop") ~> (pc \in {"flash_popen", "done"})


(***************************************************************************)
(* Properties of the two threads of an operation.                          *)
(***************************************************************************)
\* A drain thread is running.
DrainThreadAlive == \E k \in Operations : parse_thread[k] = "alive"

\* A step of the drain thread that handles a line.
DrainThreadStep == \E k \in Operations : ParseBuildLine(k) \/ ParseFlashLine(k)

\* C29: while an operation's drain thread runs, the progress state, the
\* output log and whatever is drawn change only by steps of that thread; the
\* calling thread reaches its result check, where it reads the log and the
\* percentage and draws the final bar, only when the drain thread has ended,
\* so that every bar the drain thread drew precedes the final one.
C29_OnlyTheDrainThreadUntilJoined ==
    [][ /\ ( /\ DrainThreadAlive
             /\ \/ progress' # progress
                \/ output_lines' # output_lines
                \/ rendered' # rendered
                \/ bar' # bar ) => DrainThreadStep
        /\ pc' \in {"build_check", "flash_check"} => ~DrainThreadAlive'
        /\ (BuildCheck \/ FlashCheck) =>
             /\ ~DrainThreadAlive
             /\ SubSeq(rendered', 1, Len(rendered)) = rendered
             /\ Len(rendered') = Len(rendered) + 1 ]_vars

\* A flash whose drain thread drew two bars while it ran and ended before
\* the calling thread drew the final one.
C29_Witness ==
    /\ mode = "flash"
    /\ pc = "done"
    /\ parse_thread[1] = "finished"
    /\ Len(output_lines) = 2
    /\ Len(rendered) = 3
    /\ flash_result = "True"


(***************************************************************************)
(* Properties of the scan's diagnostic listing.                            *)
(***************************************************************************)
\* C30 as stated: a scan prints the listing of all ports exactly when it
\* returns no candidate and enumerated at least one port, and what it returns
\* is the same with and without the listing.
C30_ListingExactlyWhenNoCandidateOfSomePorts ==
    Scanned =>
        /\ detected.listing <=> (detected.devices = <<>> /\ last_scan.ports # <<>>)
        /\ detected.devices = esp_devices(last_scan.ports)

\* C30, amended: a scan prints the listing of all ports exactly when the
\* enumeration ended without an error, no candidate is returned and at least
\* one port was enumerated; what it returns is the same with and without the
\* listing.
C30_ListingExactlyWhenEnumerationCompleted ==
    Scanned =>
        /\ detected.listing <=>
             (~last_scan.error /\ detected.devices = <<>> /\ last_scan.ports # <<>>)
        /\ detected.devices = esp_devices(last_scan.ports)

\* A scan enumerated two ports, accepted neither and printed the listing.
C30_Witness ==
    /\ Scanned /\ polls = 1
    /\ Len(last_scan.ports) = 2 /\ ~last_scan.error
    /\ detected.devices = <<>>
    /\ detected.listing


(***************************************************************************)
(* Properties of the stage bands.                                          *)
(***************************************************************************)
\* The band [floor, ceiling] of a non-terminal stage, as the comments of the
\* two progress updates give it.
Band(s) ==
    CASE s = "dependency"   -> 0 .. 15
      [] s = "compiling"    -> 15 .. 70
      [] s = "linking"      -> 70 .. 85
      [] s = "generating"   -> 85 .. 95
      [] s = "detecting"    -> 0 .. 10
      [] s = "connecting"   -> 10 .. 20
      [] s = "chip_info"    -> 20 .. 30
      [] s = "erasing"      -> 30 .. 40
      [] s = "writing"      -> 40 .. 90
      [] s = "verification" -> 90 .. 95

\* The entry the progress update applies to a line: the first that matches.
AppliedStage(line) ==
    StageOrder[CHOOSE k \in StagesMatching(line) : \A j \in StagesMatching(line) : k <= j]

\* The line is handled by a stage entry other than the terminal one.
NonTerminalStageLine(line) ==
    /\ StagesMatching(line) # {}
    /\ AppliedStage(line) \notin {"completed", "reset"}

\* C31: after a line that a non-terminal stage entry handles, the percentage
\* lies inside that stage's band, whatever percentage in 0..100 preceded it.
C31_PercentageInsideStageBand ==
    [][(LineTaken /\ NonTerminalStageLine(TakenLine) /\ progress.percentage \in 0 .. 100)
          => progress'.percentage \in Band(AppliedStage(TakenLine))]_vars

\* C31 for the lines that C12's unbounded write line does not concern: the
\* same, for every stage line but the write lines with N above 100.
BandsButOversizedWrites ==
    [][(/\ LineTaken /\ NonTerminalStageLine(TakenLine)
        /\ progress.percentage \in 0 .. 100
        /\ ~(AppliedStage(TakenLine) = "writing" /\ TakenLine.n > 100))
          => progress'.percentage \in Band(AppliedStage(TakenLine))]_vars


(***************************************************************************)
(* Properties of the outcome of an operation.                              *)
(***************************************************************************)
\* The calling thread performs its result check of operation k.
ResultChecked(k) ==
    \/ mode = "build" /\ pc = "build_check" /\ pc' # pc /\ k = i
    \/ mode = "flash" /\ pc = "flash_check" /\ pc' # pc /\ k = 1

\* The operation is reported and counted as succeeded, or as failed.
EndsSucceeded(k) ==
    /\ console'.kind = IF mode = "build" THEN "build_successful" ELSE "flashing_successful"
    /\ IF mode = "build"
       THEN successful_builds' = Append(successful_builds, environments[k])
       ELSE flash_result' = "True"
EndsFailed(k) ==
    /\ Diagnosed' \/ Undiagnosed'
    /\ IF mode = "build"
       THEN successful_builds' = successful_builds
       ELSE flash_result' = "False"

\* C32: the exit code alone decides the outcome of an operation whose child
\* was launched.  With exit code 0 the operation succeeds and the final bar
\* is at 100, whatever the percentage reached and whatever the log holds (no
\* diagnosis is printed); with another exit code it fails, also at 100 per
\* cent, and the final bar shows the percentage reached.  The outcome is one
\* of the two, never both.
C32_ExitCodeAloneDecides ==
    [][\A k \in Operations : ResultChecked(k) =>
          /\ process[k].state = "exited"
          /\ IF process[k].returncode = 0
             THEN /\ EndsSucceeded(k) /\ ~EndsFailed(k)
                  /\ rendered' = Append(rendered, 100)
             ELSE /\ EndsFailed(k) /\ ~EndsSucceeded(k)
                  /\ rendered' = Append(rendered, progress.percentage)]_vars

\* A flash whose log holds a line matching an error signature and no
\* 'complete' line ended with exit code 0: success, final bar at 100.
C32_Witness ==
    /\ mode = "flash" /\ pc = "done"
    /\ Succeeded(1)
    /\ MatchingLines(output_lines) # {}
    /\ progress.percentage < 100
    /\ rendered[Len(rendered)] = 100
    /\ flash_result = "True"
    /\ console.kind = "flashing_successful"

\* A build whose 'complete' line drove the percentage to 100 ended with
\* exit code 1: failure, final bar at 100.
FailedAt100 ==
    /\ JustFailed
    /\ progress.percentage = 100
    /\ rendered[Len(rendered)] = 100
    /\ successful_builds = <<>>


(***************************************************************************)
(* Properties of the build loop's per-target state.                        *)
(***************************************************************************)
\* The output log holds lines of the running (or last launched) child only:
\* it is, line by line, the beginning of what that child wrote, stripped.
LogOfOwnChild ==
    /\ Len(output_lines) <= Len(emitted)
    /\ \A a \in 1 .. Len(output_lines) : output_lines[a] = strip(emitted[a])

\* C33: every build operation starts from percentage 0, stage 'Starting'
\* and an empty log; the log of an operation holds only lines its own child
\* wrote, so that the diagnosis of a failed target is a line of that
\* target's child, and the percentage a target starts its updates from is
\* not the one an earlier target reached.
C33_FreshStatePerTarget ==
    mode = "build" =>
        /\ (pc = "build_wait" /\ emitted = <<>>) =>
              progress = StartingProgress /\ output_lines = <<>>
        /\ LogOfOwnChild
        /\ (output_lines = <<>> /\ pc \in {"build_wait", "build_join", "build_check"}) =>
              progress = StartingProgress
        /\ (JustFailed /\ Diagnosed) =>
              \E k \in 1 .. Len(emitted) : console.error.line = strip(emitted[k])

\* Of two targets the first failed; the second, whose child wrote two lines
\* matching no signature, failed as well and was reported with its exit
\* code, no diagnosis.
C33_Witness ==
    /\ JustFailed /\ pc = "build_summary" /\ i = 2
    /\ process[1] = [state |-> "exited", returncode |-> 1]
    /\ Len(output_lines) = 2 /\ MatchingLines(output_lines) = {}
    /\ Undiagnosed


\* The operation of the target at index i has just ended in a failure: a
\* child that exited with a code other than 0, or a launch that failed.
TargetJustFailed ==
    /\ mode = "build"
    /\ \/ /\ pc = "build_popen"
          /\ process[i].state = "none" /\ process'[i].state = "spawn_failed"
       \/ /\ pc = "build_check" /\ pc' # pc
          /\ process[i].state = "exited" /\ process[i].returncode # 0

\* C34: a target that fails, by a non-zero exit with or without a diagnosis
\* or by a launch failure, does not end the build loop: the loop goes on to
\* the next requested target, so that when the call returns every requested
\* target has been launched, and every target whose child exited with code 0
\* is in the list returned, whatever failed before it.
C34_FailureDoesNotStopTheLoop ==
    [][ /\ (TargetJustFailed /\ i < Len(environments)) =>
              pc' = "build_popen" /\ i' = i + 1
        /\ (mode = "build" /\ pc' = "done" /\ environments # <<>>) =>
              /\ popen_calls' = environments
              /\ \A k \in 1 .. Len(environments) :
                    Succeeded(k)' => IsIn(successful_builds', environments[k]) ]_vars

\* The first of two targets failed with a diagnosis, the second was launched
\* after it, exited with code 0 and is the one target returned.
C34_Witness ==
    /\ mode = "build" /\ pc = "done"
    /\ Len(environments) = 2
    /\ process[1] = [state |-> "exited", returncode |-> 1]
    /\ Succeeded(2)
    /\ popen_calls = environments
    /\ successful_builds = << environments[2] >>
    /\ console.kind = "successfully_built"


(***************************************************************************)
(* Termination of an operation.  The child here is a program with a fixed  *)
(* amount of output: it writes ScriptLen lines of any content, blocking in *)
(* write() while the pipe is full, and exits when it has written them all. *)
(* Every thread and the child take the steps they can take (weak           *)
(* fairness); nothing is assumed of the user or of the devices.            *)
(***************************************************************************)
\* The number of lines the child writes: enough to fill the pipe after the
\* drain thread has taken one line.
ScriptLen == PipeCap + 2

TerminationChildWrite(k) ==
    /\ process[k].state = "running"
    /\ Len(emitted) < ScriptLen
    /\ Len(pipe) < PipeCap
    /\ \E line \in ChildLines :
         /\ pipe' = Append(pipe, line)
         /\ emitted' = Append(emitted, line)
    /\ UNCHANGED << mode, environments, target_env, pc, i, process, parse_thread,
                    progress, output_lines, successful_builds, flash_result, bar,
                    rendered, console, elapsed, last_device_count, polls, found,
                    popen_calls, last_scan, detected, wizard, serial_view >>

TerminationChildExit(k) ==
    /\ Len(emitted) = ScriptLen
    /\ ChildExit(k)

DrainThread ==
    \E k \in Operations :
        \/ ParseBuildLine(k) \/ ParseBuildDecodeError(k) \/ ParseBuildEOF(k)
        \/ ParseFlashLine(k) \/ ParseFlashDecodeError(k) \/ ParseFlashEOF(k)

CallingThread ==
    \/ BuildEntry \/ BuildPopen \/ BuildSpawnFailure
    \/ BuildWait \/ BuildJoin \/ BuildCheck \/ BuildSummary
    \/ FlashEntry \/ FlashPopen \/ FlashSpawnFailure
    \/ FlashWait \/ FlashJoin \/ FlashCheck

DeviceWait == WaitPoll \/ WaitTimeout \/ WaitInput \/ WaitInputEOF

NextTermination ==
    \/ \E k \in Operations : TerminationChildWrite(k)
    \/ \E k \in Operations : TerminationChildExit(k)
    \/ DrainThread
    \/ CallingThread
    \/ DeviceWait

SpecTermination ==
    /\ Init
    /\ [][NextTermination]_vars
    /\ WF_vars(\E k \in Operations : TerminationChildWrite(k))
    /\ WF_vars(\E k \in Operations : TerminationChildExit(k))
    /\ WF_vars(DrainThread)
    /\ WF_vars(CallingThread)

\* The calling thread is between the launch of a child and the outcome of
\* its operation: in process.wait(), in join(), or at the result check.
InOperation ==
    pc \in {"build_wait", "build_join", "build_check",
            "flash_wait", "flash_join", "flash_check"}

\* C35: once the child has been launched the driver eventually has the
\* outcome of the operation, for a child that writes its lines, closes its
\* output and exits, whatever the lines are: the calling thread in
\* process.wait() and the drain thread never block each other, also when
\* the drain thread has ended early, on a line whose handling raised.
C35_OperationTerminates == InOperation ~> ~InOperation

\* The same for the operations whose drain thread reads to the end.
TerminatesUnlessDrainThreadCrashed ==
    InOperation ~> (~InOperation \/ \E k \in Operations : parse_thread[k] = "crashed")


(***************************************************************************)
(* The build followed by the flash: wizard.py's build_and_flash_workflow   *)
(* (caller "menu") and setup.py's flash_action (caller "flash", which      *)
(* builds the one target it was given), up to the launch of the upload.    *)
(***************************************************************************)
\* A variant that offers every requested target, built or not.
select_target_among_requested(builds) ==
    { environments[k] : k \in 1 .. Len(environments) } \cup {None}

\* select_target_for_flashing(successful_builds): the targets it can return.
\* None for an empty list, the only element of a list of one without asking,
\* otherwise the element the user chooses or None for 'Skip flashing'.
select_target_for_flashing(builds) ==
    IF builds = <<>> THEN {None}
    ELSE IF Len(builds) = 1 THEN {builds[1]}
    ELSE { builds[k] : k \in 1 .. Len(builds) } \cup {None}

\* build_project_with_progress has returned to the caller named.
BuildReturnedTo(entry) ==
    /\ mode = "build" /\ pc = "done"
    /\ wizard.entry = entry /\ wizard.at = "in_step"

\* The caller returns without flashing, after the message given.
ReturnsWithoutFlashing(message) ==
    /\ console' = Say(message)
    /\ wizard' = [wizard EXCEPT !.at = "returned"]
    /\ UNCHANGED << mode, environments, target_env, pc, i, process, parse_thread, pipe,
                    emitted, progress, output_lines, successful_builds, flash_result, bar,
                    rendered, elapsed, last_device_count, polls, found, popen_calls,
                    last_scan, detected, serial_view >>

\* The caller calls flash_target_with_progress(flash_target, pio_path); the
\* locals of build_project_with_progress are gone, its list is the caller's.
CallsFlash(flash_target) ==
    /\ mode' = "flash"
    /\ target_env' = flash_target
    /\ pc' = "flash_entry"
    /\ i' = 0
    /\ process' = [k \in Operations |-> NoProcess]
    /\ parse_thread' = [k \in Operations |-> "none"]
    /\ pipe' = <<>>
    /\ emitted' = <<>>
    /\ progress' = StartingProgress
    /\ output_lines' = <<>>
    /\ bar' = NoBar
    /\ rendered' = <<>>
    /\ console' = Say("flashing_target")
    /\ UNCHANGED << environments, successful_builds, flash_result, elapsed,
                    last_device_count, polls, found, popen_calls, last_scan, detected,
                    wizard, serial_view >>

\* if not successful_builds: "All builds failed", return False
WorkflowAllBuildsFailed ==
    /\ BuildReturnedTo("menu")
    /\ successful_builds = <<>>
    /\ ReturnsWithoutFlashing("all_builds_failed")

\* if not flash_target: "No target selected for flashing", return True
WorkflowSkipFlashing ==
    /\ BuildReturnedTo("menu")
    /\ successful_builds # <<>>
    /\ None \in select_target_for_flashing(successful_builds)
    /\ ReturnsWithoutFlashing("no_target_selected_for_flashing")

WorkflowFlash ==
    /\ BuildReturnedTo("menu")
    /\ successful_builds # <<>>
    /\ \E flash_target \in select_target_for_flashing(successful_builds) \ {None} :
         CallsFlash(flash_target)

\* flash_action: if not build_action(target): return False
FlashActionBuildFailed ==
    /\ BuildReturnedTo("flash")
    /\ successful_builds = <<>>
    /\ ReturnsWithoutFlashing("no_builds_successful")

\* flash_action: the environment named target is looked up again and flashed.
FlashActionFlash ==
    /\ BuildReturnedTo("flash")
    /\ successful_builds # <<>>
    /\ \E k \in 1 .. Len(environments) :
         /\ environments[k] = environments[1]
         /\ \A j \in 1 .. k - 1 : environments[j] # environments[1]
         /\ CallsFlash(environments[k])

\* The workflow asks for at least one target; flash_action builds the one
\* target named on the command line.
InitWorkflow ==
    /\ InitWith({"menu", "flash"})
    /\ mode = "build"
    /\ environments # <<>>
    /\ wizard.entry = "flash" => Len(environments) = 1

NextWorkflow ==
    \/ \E k \in Operations : ChildWrite(k)
    \/ \E k \in Operations : ChildExit(k)
    \/ \E k \in Operations : ParseBuildLine(k)
    \/ \E k \in Operations : ParseBuildDecodeError(k)
    \/ \E k \in Operations : ParseBuildEOF(k)
    \/ BuildEntry
    \/ BuildPopen
    \/ BuildSpawnFailure
    \/ BuildWait
    \/ BuildJoin
    \/ BuildCheck
    \/ BuildSummary
    \/ WorkflowAllBuildsFailed
    \/ WorkflowSkipFlashing
    \/ WorkflowFlash
    \/ FlashActionBuildFailed
    \/ FlashActionFlash
    \/ FlashEntry
    \/ WaitPoll
    \/ WaitTimeout
    \/ WaitInput
    \/ WaitInputEOF
    \/ FlashPopen
    \/ FlashSpawnFailure

SpecWorkflow == InitWorkflow /\ [][NextWorkflow]_vars

\* The upload command has been launched (or its launch attempted): one Popen
\* call more than the build's one per target.
UploadAttempted == mode = "flash" /\ Len(popen_calls) > Len(environments)

\* C36: the flash driver is started only for one target that the build of
\* the same workflow returned as successful.  In build_and_flash_workflow
\* the target flashed is in the list build_project_with_progress returned,
\* and nothing is flashed when that list is empty; in the direct flash
\* action the upload is attempted only after the build of that same target
\* succeeded.
C36_FlashOnlyASuccessfullyBuiltTarget ==
    /\ mode = "flash" =>
          /\ target_env # None
          /\ IsIn(successful_builds, target_env)
          /\ IsIn(environments, target_env)
    /\ successful_builds = <<>> => (mode = "build" /\ ~UploadAttempted)
    /\ (mode = "flash" /\ wizard.entry = "flash") =>
          /\ environments = << target_env >>
          /\ successful_builds = << target_env >>
    /\ UploadAttempted => popen_calls[Len(popen_calls)] = target_env

\* Of two targets the first failed and the second was built; the workflow
\* flashed the second and its upload has been launched.
C36_Witness ==
    /\ wizard.entry = "menu"
    /\ Len(environments) = 2
    /\ successful_builds = << environments[2] >>
    /\ target_env = environments[2]
    /\ UploadAttempted
    /\ pc = "flash_wait"


(***************************************************************************)
(* Properties of the device wait's outcome.                                *)
(***************************************************************************)
\* A turn of the wait loop whose scan returned at least one candidate.
CandidateSeen == pc = "wait_loop" /\ detected'.devices # <<>>

\* A scan is made in this step.
ScanMade == last_scan' # last_scan \/ detected' # detected \/ polls' = polls + 1

\* C37: a scan of the wait loop that returns a candidate ends the wait with
\* success in that same turn; the next step of the flash call is the launch
\* of the upload, with no scan in between, so that what the ports are after
\* the stabilisation sleep plays no part; and once the timeout has been
\* reached no scan is made any more: the wait fails and nothing is launched,
\* whatever is attached afterwards.
C37_CandidateEndsTheWaitAtOnce ==
    [][ /\ CandidateSeen => (found' /\ pc' = "flash_popen")
        /\ (mode = "flash" /\ pc = "flash_popen") =>
              /\ pc' \in {"flash_wait", "done"}
              /\ popen_calls' = Append(popen_calls, target_env)
        /\ (pc = "wait_loop" /\ elapsed >= timeout) =>
              (~ScanMade /\ pc' = "wait_input" /\ ~found')
        /\ pc = "wait_input" =>
              /\ ~ScanMade /\ pc' = "done"
              /\ flash_result' # "True" /\ popen_calls' = popen_calls ]_vars

\* The scan of a turn found one candidate among two ports: the wait is over
\* and the launch of the upload is next.
C37_Witness ==
    /\ mode = "flash" /\ pc = "flash_popen"
    /\ found
    /\ Len(last_scan.ports) = 2
    /\ Len(detected.devices) = 1
    /\ popen_calls = <<>>


(***************************************************************************)
(* Properties of the view of the real devices.                             *)
(***************************************************************************)
\* The port has no description (none, or the placeholder 'n/a'), no
\* hardware ID (none, or the placeholder 'n/a').
NoDescription(port) == port.description \in {"", "n/a"}
NoHardwareId(port) == port.hwid \in {"", "n/a"}

\* A port on a known-virtual path that carries no hardware signature: the
\* placeholder for a description and no hardware ID.
VirtualWithoutSignature(port) ==
    /\ port.device \in VirtualSerialPaths
    /\ port.description = "n/a"
    /\ port.hwid = ""

OmittedFromView(port) ==
    \/ NoDescription(port) /\ NoHardwareId(port)
    \/ VirtualWithoutSignature(port)

Shown(port) == ~OmittedFromView(port)

\* C38: list_all_serial_devices lists, in the order of the enumeration, the
\* visible ports except those without description and hardware ID and those
\* on a /dev/ttyS path without hardware signature, whatever their vendor ID,
\* and lists nothing when the enumeration fails.  It is called only when the
\* device wait has failed: the step that computes it changes neither the
\* candidates of the last scan nor the launches, and the flash call returns
\* False whatever it lists.
C38_RealDevicesViewIsDiagnosticOnly ==
    [][ /\ serial_view'.real_devices =
              IF serial_view'.error THEN << >>
              ELSE SelectSeq(serial_view'.all_ports, Shown)
        /\ serial_view' # serial_view =>
              /\ pc = "wait_input" /\ pc' = "done"
              /\ detected' = detected /\ last_scan' = last_scan /\ found' = found
              /\ popen_calls' = popen_calls
              /\ flash_result' = "False" ]_vars

\* After a failed wait the view was given a port without description and
\* hardware ID and a port with both, and lists the second.
C38_Witness ==
    /\ mode = "flash" /\ pc = "done" /\ flash_result = "False"
    /\ Len(serial_view.all_ports) = 2
    /\ OmittedFromView(serial_view.all_ports[1])
    /\ serial_view.real_devices = << serial_view.all_ports[2] >>
    /\ popen_calls = <<>>

=============================================================================
